---- MODULE Spec2Model ----
(***************************************************************************)
(* koru_find: pattern engine (src/pattern.rs), window (src/server/         *)
(* window.rs), walker (src/server/walker.rs) and server loop               *)
(* (src/server/mod.rs).                                                    *)
(*                                                                         *)
(* Text is a sequence of one-character strings: the pattern "<a b" is      *)
(* <<"<", "a", " ", "b">>.  A regex source is a sequence of tokens: one    *)
(* token per character, with the character class [^/] as the single token  *)
(* "[^/]".  Option<T> is a sequence of length 0 (None) or 1 (Some).        *)
(***************************************************************************)
EXTENDS Integers, Sequences, FiniteSets, TLC

Min(a, b) == IF a < b THEN a ELSE b

None == << >>
Some(x) == << x >>
IsSome(o) == Len(o) > 0
Unwrap(o) == o[1]

Last(s) == s[Len(s)]
Front(s) == SubSeq(s, 1, Len(s) - 1)
Drop(s, n) == SubSeq(s, n + 1, Len(s))
Take(s, n) == SubSeq(s, 1, n)

starts_with(h, needle) ==
    /\ Len(needle) <= Len(h)
    /\ Take(h, Len(needle)) = needle

ends_with(h, needle) ==
    /\ Len(needle) <= Len(h)
    /\ Drop(h, Len(h) - Len(needle)) = needle

(***************************************************************************)
(* The regex crate, for the sources this alphabet can spell: literals,     *)
(* ".", "[^/]", "\" escapes, groups, alternation and "*".                  *)
(***************************************************************************)
UpperChars == {"S"}
to_lowercase(c) == IF c = "S" THEN "s" ELSE c
WordChars == {"a", "s", "S"}
MetaChars == {"\\", ".", "*", "(", ")", "|"}

\* regex::escape of one character
regex_escape(c) == IF c \in MetaChars THEN <<"\\", c>> ELSE <<c>>

CharEq(ci, hc, c) == IF ci THEN to_lowercase(hc) = to_lowercase(c) ELSE hc = c

IsWordAt(h, p) == p >= 1 /\ p <= Len(h) /\ h[p] \in WordChars

\* whether an atom of the given kind accepts the haystack character x
Accepts(kind, c, ci, x) ==
    CASE kind = "any" -> TRUE
      [] kind = "not_slash" -> x # "/"
      [] kind = "not_space" -> x # " "
      [] OTHER -> CharEq(ci, x, c)

\* the positions of S from which one haystack character the atom accepts is consumed
Consume(h, S, kind, c, ci) ==
    {p + 1 : p \in {q \in S : q < Len(h) /\ Accepts(kind, c, ci, h[q + 1])}}

ReFail == [ok |-> FALSE, next |-> 0, ends |-> {}]

\* "\" followed by d, matched from the positions S
ReEscape(d, h, S) ==
    CASE d \in MetaChars \cup {"/", " "} -> [ok |-> TRUE, ends |-> Consume(h, S, "lit", d, FALSE)]
      [] d = "s" -> [ok |-> TRUE, ends |-> Consume(h, S, "lit", " ", FALSE)]
      [] d = "S" -> [ok |-> TRUE, ends |-> Consume(h, S, "not_space", " ", FALSE)]
      [] d = "a" -> [ok |-> TRUE, ends |-> {}]
      [] d = "<" -> [ok |-> TRUE, ends |-> {p \in S : ~IsWordAt(h, p) /\ IsWordAt(h, p + 1)}]
      [] d = ">" -> [ok |-> TRUE, ends |-> {p \in S : IsWordAt(h, p) /\ ~IsWordAt(h, p + 1)}]
      [] OTHER -> [ok |-> FALSE, ends |-> {}]

RECURSIVE SkipStars(_, _)
SkipStars(src, i) == IF i <= Len(src) /\ src[i] = "*" THEN SkipStars(src, i + 1) ELSE i

\* The recursive-descent matcher.  Re(k, src, i, h, ci, S) reads from src[i]
\*   "alt":  concatenations separated by "|"
\*   "cat":  repetitions up to "|", ")" or the end
\*   "rep":  an atom and the "*"s after it
\*   "atom": a group, an escape, ".", "[^/]" or a literal
\*   "star": zero or more repetitions of the atom at src[i]
\* and gives ok (the source is well formed), next (where it stopped reading)
\* and ends (the haystack positions reached from the positions S).
RECURSIVE Re(_, _, _, _, _, _)
Re(k, src, i, h, ci, S) ==
    CASE k = "alt" ->
           LET r == Re("cat", src, i, h, ci, S) IN
           IF r.ok /\ r.next <= Len(src) /\ src[r.next] = "|"
           THEN LET r2 == Re("alt", src, r.next + 1, h, ci, S) IN
                IF r2.ok THEN [ok |-> TRUE, next |-> r2.next, ends |-> r.ends \cup r2.ends]
                ELSE ReFail
           ELSE r
      [] k = "cat" ->
           IF i > Len(src) \/ src[i] \in {"|", ")"} THEN [ok |-> TRUE, next |-> i, ends |-> S]
           ELSE IF src[i] = "*" THEN ReFail
           ELSE LET r == Re("rep", src, i, h, ci, S) IN
                IF ~r.ok THEN ReFail ELSE Re("cat", src, r.next, h, ci, r.ends)
      [] k = "rep" ->
           LET a == Re("atom", src, i, h, ci, S) IN
           IF ~a.ok THEN ReFail
           ELSE IF a.next <= Len(src) /\ src[a.next] = "*"
                THEN [ok |-> TRUE, next |-> SkipStars(src, a.next),
                      ends |-> Re("star", src, i, h, ci, S).ends]
                ELSE a
      [] k = "star" ->
           LET T == S \cup Re("atom", src, i, h, ci, S).ends IN
           IF T = S THEN [ok |-> TRUE, next |-> i, ends |-> S]
           ELSE Re("star", src, i, h, ci, T)
      [] OTHER ->
           LET c == src[i] IN
           CASE c = "(" ->
                  LET r == Re("alt", src, i + 1, h, ci, S) IN
                  IF r.ok /\ r.next <= Len(src) /\ src[r.next] = ")"
                  THEN [ok |-> TRUE, next |-> r.next + 1, ends |-> r.ends]
                  ELSE ReFail
             [] c = "\\" ->
                  IF i = Len(src) THEN ReFail
                  ELSE LET e == ReEscape(src[i + 1], h, S) IN
                       IF e.ok THEN [ok |-> TRUE, next |-> i + 2, ends |-> e.ends] ELSE ReFail
             [] c = "." ->
                  [ok |-> TRUE, next |-> i + 1, ends |-> Consume(h, S, "any", c, ci)]
             [] c = "[^/]" ->
                  [ok |-> TRUE, next |-> i + 1, ends |-> Consume(h, S, "not_slash", c, ci)]
             [] OTHER ->
                  [ok |-> TRUE, next |-> i + 1,
                   ends |-> Consume(h, S, "lit", c, ci)]

\* RegexBuilder::case_insensitive(text == text.to_lowercase())
case_insensitive(src) == \A i \in 1..Len(src) : src[i] \notin UpperChars

\* make_regex(text).is_ok()
make_regex(src) ==
    LET r == Re("alt", src, 1, << >>, TRUE, {0}) IN r.ok /\ r.next = Len(src) + 1

\* Regex::is_match of the regex compiled from src by make_regex
is_match(src, h) ==
    Re("alt", src, 1, h, case_insensitive(src), 0..Len(h)).ends # {}

(***************************************************************************)
(* Matcher (src/pattern.rs)                                                *)
(***************************************************************************)
Narrow == "Narrow"
Change == "Change"

DefaultMatcher ==
    [patterns |-> << >>, starts_with |-> None, ends_with |-> None, mode |-> "New",
     escape |-> FALSE, text |-> << >>, bad_regex |-> None, skip_prefix |-> 0]

\* str::split(' '): always at least one fragment
RECURSIVE Split(_)
Split(t) ==
    IF \A i \in 1..Len(t) : t[i] # " " THEN <<t>>
    ELSE LET k == CHOOSE i \in 1..Len(t) : t[i] = " " /\ \A j \in 1..(i - 1) : t[j] # " "
         IN <<Take(t, k - 1)>> \o Split(Drop(t, k))

RECURSIVE fuzzy_build(_, _)
fuzzy_build(esc, text) ==
    IF text = << >> THEN [esc |-> esc, re |-> << >>]
    ELSE LET c == Head(text) IN
         IF esc \/ c # "\\"
         THEN LET c2 == IF esc /\ c = "s" THEN " " ELSE c
                  piece == IF c2 = "/" THEN <<"/", ".", "*">>
                           ELSE regex_escape(c2) \o <<"[^/]", "*">>
                  rest == fuzzy_build(FALSE, Tail(text))
              IN [esc |-> rest.esc, re |-> piece \o rest.re]
         ELSE fuzzy_build(TRUE, Tail(text))

regex_build(esc, text) ==
    LET lesc == Len(text) > 0 /\ Last(text) = "\\"
        t == IF lesc THEN Front(text) ELSE text
    IN [esc |-> lesc, re |-> IF esc THEN <<"\\">> \o t ELSE t]

RECURSIVE unescape(_, _, _)
unescape(esc, cur, ext) ==
    IF ext = << >> THEN [esc |-> esc, out |-> cur]
    ELSE LET c == Head(ext) IN
         IF esc \/ c # "\\"
         THEN unescape(FALSE, Append(cur, IF esc /\ c = "s" THEN " " ELSE c), Tail(ext))
         ELSE unescape(TRUE, cur, Tail(ext))

extend_starts_with(m, text) ==
    LET current == IF IsSome(m.starts_with) THEN Unwrap(m.starts_with) ELSE << >>
        r == unescape(m.escape, current, text)
    IN [m EXCEPT !.starts_with = Some(r.out), !.escape = r.esc]

extend_ends_with(m, text) ==
    LET current == IF IsSome(m.ends_with) THEN Unwrap(m.ends_with) ELSE << >>
        r == unescape(m.escape, current, text)
    IN [m EXCEPT !.ends_with = Some(r.out), !.escape = r.esc]

extend_regex(m, esc_p) ==
    IF m.patterns = << >> THEN m
    ELSE LET last == IF IsSome(m.bad_regex) THEN Unwrap(m.bad_regex) ELSE Last(m.patterns)
             restr == last \o esc_p.re
         IN IF make_regex(restr)
            THEN [m EXCEPT !.bad_regex = None, !.escape = esc_p.esc,
                           !.patterns = Append(Front(m.patterns), restr)]
            ELSE [m EXCEPT !.bad_regex = Some(restr), !.escape = esc_p.esc]

add_regex(m, esc_p) ==
    IF make_regex(esc_p.re)
    THEN [m EXCEPT !.escape = esc_p.esc, !.patterns = Append(m.patterns, esc_p.re)]
    ELSE [m EXCEPT !.escape = esc_p.esc, !.patterns = Append(m.patterns, << >>),
                   !.bad_regex = Some(esc_p.re)]

\* the first fragment of an add, when mode is not New
ExtendTerm(m, p) ==
    CASE m.mode = "Fuzzy" -> extend_regex(m, fuzzy_build(m.escape, p))
      [] m.mode = "Regex" -> extend_regex(m, regex_build(m.escape, p))
      [] m.mode = "StartsWith" -> extend_starts_with(m, p)
      [] m.mode = "EndsWith" -> extend_ends_with(m, p)
      [] OTHER -> m

\* one iteration of `for p in iter`
NewTerm(m, p) ==
    LET m1 == IF IsSome(m.bad_regex)
              THEN [m EXCEPT !.bad_regex = None,
                             !.patterns = IF m.patterns = << >> THEN << >> ELSE Front(m.patterns)]
              ELSE m
    IN IF p = << >> THEN [m1 EXCEPT !.mode = "New"]
       ELSE CASE Head(p) = "<" -> [extend_starts_with(m1, Tail(p)) EXCEPT !.mode = "StartsWith"]
              [] Head(p) = ">" -> [extend_ends_with(m1, Tail(p)) EXCEPT !.mode = "EndsWith"]
              [] Head(p) = "*" ->
                   [add_regex(m1, regex_build(FALSE, Tail(p))) EXCEPT !.mode = "Regex"]
              [] OTHER -> [add_regex(m1, fuzzy_build(FALSE, p)) EXCEPT !.mode = "Fuzzy"]

RECURSIVE NewTerms(_, _)
NewTerms(m, frags) ==
    IF frags = << >> THEN m ELSE NewTerms(NewTerm(m, Head(frags)), Tail(frags))

\* an add that reports Change only for a new `>` term
Matcher_add_NewTermOnly(m, text) ==
    LET m0 == [m EXCEPT !.text = m.text \o text]
        frags == Split(text)
        first == m.mode # "New"
        m1 == IF first /\ Head(frags) # << >> THEN ExtendTerm(m0, Head(frags)) ELSE m0
        rest == IF first THEN Tail(frags) ELSE frags
        ch == \E i \in 1..Len(rest) : rest[i] # << >> /\ Head(rest[i]) = ">"
    IN [m |-> NewTerms(m1, rest), scope |-> IF ch THEN Change ELSE Narrow]

\* Matcher::add: the matcher after the call and the scope it returns
Matcher_add(m, text) ==
    LET m0 == [m EXCEPT !.text = m.text \o text]
        frags == Split(text)
        first == m.mode # "New"
        m1 == IF first /\ Head(frags) # << >> THEN ExtendTerm(m0, Head(frags)) ELSE m0
        rest == IF first THEN Tail(frags) ELSE frags
        ch == \/ first /\ Head(frags) # << >> /\ m.mode = "EndsWith"
              \/ \E i \in 1..Len(rest) : rest[i] # << >> /\ Head(rest[i]) = ">"
    IN [m |-> NewTerms(m1, rest), scope |-> IF ch THEN Change ELSE Narrow]

Matcher_reset(m) ==
    [m EXCEPT !.text = << >>, !.patterns = << >>, !.starts_with = None,
              !.ends_with = None, !.mode = "New"]

Matcher_rm(m, amount) ==
    LET text == m.text
        m1 == Matcher_reset(m)
    IN [m |-> IF amount < Len(text) THEN Matcher_add(m1, Take(text, Len(text) - amount)).m ELSE m1,
        scope |-> Change]

\* a set that forgets the kept prefix when it rebuilds
Matcher_set_DropPrefix(m, start0, text) ==
    IF Min(start0, Len(m.text)) = Len(m.text) THEN Matcher_add(m, text)
    ELSE [m |-> Matcher_add(Matcher_reset(m), text).m, scope |-> Change]

\* a set without the append paths: it always rebuilds the buffer
Matcher_set_AlwaysRebuild(m, start0, text) ==
    [m |-> Matcher_add(Matcher_reset(m), Take(m.text, Min(start0, Len(m.text))) \o text).m,
     scope |-> Change]

Matcher_set(m, start0, text) ==
    LET start == Min(start0, Len(m.text))
        pfx == Take(m.text, start)
        sfx == Drop(m.text, start)
    IN IF start = Len(m.text) THEN Matcher_add(m, text)
       ELSE IF starts_with(text, sfx) THEN Matcher_add(m, Drop(text, Len(sfx)))
       ELSE [m |-> Matcher_add(Matcher_reset(m), pfx \o text).m, scope |-> Change]

Matcher_skip_prefix(m, n) == [m EXCEPT !.skip_prefix = n]

adjust_haystack(m, h) ==
    IF m.skip_prefix > 0 THEN Drop(h, Min(Len(h), m.skip_prefix)) ELSE h

\* an all_matches that does not look at the suffix
all_matches_NoSuffix(m, haystack) ==
    \/ m.text = << >>
    \/ LET h == adjust_haystack(m, haystack) IN
       /\ IsSome(m.starts_with) => starts_with(h, Unwrap(m.starts_with))
       /\ \A i \in 1..Len(m.patterns) : is_match(m.patterns[i], h)

all_matches(m, haystack) ==
    \/ m.text = << >>
    \/ LET h == adjust_haystack(m, haystack) IN
       /\ IsSome(m.starts_with) => starts_with(h, Unwrap(m.starts_with))
       /\ IsSome(m.ends_with) => ends_with(h, Unwrap(m.ends_with))
       /\ \A i \in 1..Len(m.patterns) : is_match(m.patterns[i], h)

any_matches(m, haystack) ==
    /\ m.text # << >>
    /\ LET h == adjust_haystack(m, haystack) IN
       \/ IsSome(m.starts_with) /\ starts_with(h, Unwrap(m.starts_with))
       \/ IsSome(m.ends_with) /\ ends_with(h, Unwrap(m.ends_with))
       \/ \E i \in 1..Len(m.patterns) : is_match(m.patterns[i], h)

(***************************************************************************)
(* Byte-lexicographic order of BTreeSet<Bytes>                             *)
(***************************************************************************)
Byte(c) ==
    CASE c = " " -> 32 [] c = "(" -> 40 [] c = ")" -> 41 [] c = "*" -> 42
      [] c = "." -> 46 [] c = "/" -> 47 [] c = "<" -> 60 [] c = ">" -> 62
      [] c = "S" -> 83 [] c = "\\" -> 92 [] c = "a" -> 97 [] c = "s" -> 115
      [] OTHER -> 124

RECURSIVE BytesLess(_, _)
BytesLess(x, y) ==
    IF y = << >> THEN FALSE
    ELSE IF x = << >> THEN TRUE
    ELSE IF Head(x) # Head(y) THEN Byte(Head(x)) < Byte(Head(y))
    ELSE BytesLess(Tail(x), Tail(y))

\* the smallest entry of a non-empty set
MinEntry(S) == CHOOSE x \in S : \A y \in S \ {x} : BytesLess(x, y)

\* the largest entry of a non-empty set: BTreeSet::last
MaxEntry(S) == CHOOSE x \in S : \A y \in S \ {x} : BytesLess(y, x)

\* the entries in descending order, as iter().rev() gives them
RECURSIVE Descending(_)
Descending(S) ==
    IF S = {} THEN << >> ELSE Append(Descending(S \ {MinEntry(S)}), MinEntry(S))

\* BTreeSet::iter: the entries in ascending order
RECURSIVE Ascending(_)
Ascending(S) ==
    IF S = {} THEN << >> ELSE Append(Ascending(S \ {MaxEntry(S)}), MaxEntry(S))

(***************************************************************************)
(* Bounds and the universe of the model                                    *)
(***************************************************************************)
\* the `threads` argument of run(): the initial window size (mod.rs:84)
Threads == 1
\* cap on Pattern.version
MaxVersion == 2
\* cap on WalkerVersion.current_version
MaxWalkerVersion == 2
\* number of calls the command thread makes
MaxOps == 3

\* the files of the tree under the search root
Files == {<<"a">>, <<"s">>}
\* the traversal's worker threads
Workers == {"w1", "w2"}
\* the threads that call Window::add: the workers and the match thread
Producers == Workers \cup {"sink"}
\* arguments of Pattern.add / Pattern.set
Texts == {<<"a">>, <<" ", "s">>}
\* arguments of Pattern.rm
Amounts == {1}
\* arguments of Window.set_size
Sizes == {1, 2}

\* the terminator of a frame, the byte 0
NUL == "NUL"
\* CommandReader::new: buf: vec![0; 50]
InitialBuf == 50

VARIABLES
    matcher,          \* PatternInner.matcher of the search pattern
    pversion,         \* PatternInner.version of the search pattern
    ignore_matcher,   \* matcher of Walker.ignore_pattern
    size,             \* Inner.size
    content,          \* Inner.content
    content_lock,     \* holder of the Inner.content mutex, "none" when free
    lock,             \* holder of the Inner.lock mutex, "none" when free
    cvar,             \* the producers blocked in Inner.cvar.wait
    out,              \* Inner.out, the frames in the outbound channel
    current_version,  \* WalkerVersion.current_version
    my_version,       \* WalkerVersion.my_version of Walker.visitor
    walker_thread,    \* Walker.walker_thread: "none", "running", "finished"
    todo,             \* entries of the running traversal not yet visited
    quit,             \* the traversal was told to quit (WalkState::Quit)
    wpc,              \* position of each worker
    wlocal,           \* each worker's locals: entry, version, mine
    cmd,              \* the micro-steps left of the command thread's call
    scope,            \* PatternScope returned by the last pattern mutation
    history,          \* history[k+1]: the matcher after the k-th mutation
    last_op,          \* the call the command thread made last
    ops,              \* number of calls the command thread has made
    freed,            \* the last call removed an entry and left |content| < size
    input,            \* the input stream of run: "open", "eof" or "error"
    frame,            \* the command frame CommandReader::read has delivered, if any
    result,           \* what run has returned: "Running" until it returns
    exit_code,        \* the status the process has exited with, if it has
    is_walking,       \* Walker.is_walking
    match_thread,     \* Walker.match_thread: "none" or "running"
    match_sender,     \* Walker.match_sender is Some: the channel to the match thread is open
    match_queue,      \* the lines sent to the match thread and not yet received
    last_arg,         \* the arguments of the last Pattern call or match_line: [n, text]
    log,              \* the frames without payload sent so far, in the order sent
    prev_op,          \* the call the command thread made before last_op
    buf,              \* CommandReader.buf
    startp,           \* CommandReader.startp
    endp,             \* CommandReader.endp
    rpc,              \* position of CommandReader::read: "idle", "top", "input", "scan"
    fed,              \* the bytes the input has delivered so far
    got,              \* the (cmd, arg) pairs get_cmd has returned so far
    connected,        \* the receiver of Inner.out exists: relay_to_out has not returned
    client,           \* the set a client builds by replaying the frames written to it
    path,             \* Walker.path
    dir_len           \* Visitor.dir_len

vars == <<matcher, pversion, ignore_matcher, size, content, content_lock, lock, cvar, out,
          current_version, my_version, walker_thread, todo, quit, wpc, wlocal, cmd,
          scope, history, last_op, ops, freed, input, frame, result, exit_code,
          is_walking, match_thread, match_sender, match_queue, last_arg, log, prev_op,
          buf, startp, endp, rpc, fed, got, connected, client, path, dir_len>>

pattern_vars == <<matcher, pversion, scope, history>>
window_vars == <<size, content, content_lock, lock, cvar, out>>
walker_vars == <<current_version, my_version, walker_thread, todo, quit>>
worker_vars == <<wpc, wlocal>>
reader_vars == <<buf, startp, endp, rpc, fed, got>>
run_vars == <<input, frame, result, exit_code, reader_vars, connected, client>>
match_vars == <<match_thread, match_sender, match_queue>>
cmd_vars == <<is_walking, path, dir_len, match_vars, last_arg, log, prev_op>>

\* capacity of the outbound channel: mpsc::sync_channel(threads * 2)
OutCap == Threads * 2

\* SyncSender::send blocks while the channel is full and its receiver exists,
\* and returns Err at once when the receiver is gone
CanSend == connected => Len(out) < OutCap

\* the channel after send(f): an Err leaves nothing behind
Sent(f) == IF connected THEN Append(out, f) ELSE out

AddFile(b) == [t |-> "AddFile", b |-> b]
RmFile(b) == [t |-> "RmFile", b |-> b]
Frame(t) == [t |-> t, b |-> << >>]

NoLocal == [entry |-> << >>, version |-> 0, mine |-> 0]

\* Walker::new: the path is `./` and the visitor cuts 2 bytes off each entry
InitialPath == <<".", "/">>
InitialDirLen == 2

\* the window holds c after earlier add calls of its owner
InitWindow(sz, c) ==
    /\ matcher = DefaultMatcher
    /\ pversion = 0
    /\ ignore_matcher = DefaultMatcher
    /\ size = sz
    /\ content = c
    /\ content_lock = "none"
    /\ lock = "none"
    /\ cvar = {}
    /\ out = << >>
    /\ current_version = 1
    /\ my_version = 1
    /\ walker_thread = "none"
    /\ todo = {}
    /\ quit = FALSE
    /\ wpc = [w \in Producers |-> "off"]
    /\ wlocal = [w \in Producers |-> NoLocal]
    /\ cmd = << >>
    /\ scope = Narrow
    /\ history = <<DefaultMatcher>>
    /\ last_op = "none"
    /\ ops = 0
    /\ freed = FALSE
    /\ input = "open"
    /\ frame = None
    /\ result = "Running"
    /\ exit_code = None
    /\ is_walking = FALSE
    /\ path = InitialPath
    /\ dir_len = InitialDirLen
    /\ match_thread = "none"
    /\ match_sender = FALSE
    /\ match_queue = << >>
    /\ last_arg = [n |-> 0, text |-> << >>]
    /\ log = << >>
    /\ prev_op = "none"
    /\ buf = [i \in 1..InitialBuf |-> NUL]
    /\ startp = 0
    /\ endp = 0
    /\ rpc = "idle"
    /\ fed = << >>
    /\ got = << >>
    /\ connected = TRUE
    /\ client = c

\* Window::new(threads, out): the size starts at the number of threads
Init == InitWindow(Threads, {})

(***************************************************************************)
(* Traversal workers: Visitor::visit and Window::add (Inner::add)          *)
(***************************************************************************)
is_wrong(mine) == mine # current_version

SetPc(w, pc) == wpc' = [wpc EXCEPT ![w] = pc]

\* visit() returns: its locals are gone
Return(w, pc) ==
    /\ wpc' = [wpc EXCEPT ![w] = pc]
    /\ wlocal' = [wlocal EXCEPT ![w].entry = << >>, ![w].version = 0]

\* Condvar::notify_all: every waiter leaves the wait and must take Inner.lock again
NotifyAll == [w \in Producers |-> IF w \in cvar THEN "woken" ELSE wpc[w]]

\* where a producer goes on after add() has returned: a worker to its next
\* entry, the match thread to the next line of its channel
Resume(w) == IF w \in Workers THEN "next" ELSE "recv"

\* the walker hands the next entry to a worker, which begins visit() with
\* its is_wrong test; a worker stops when nothing is left or the walk quit
WorkerNext(w) ==
    /\ wpc[w] = "next"
    /\ IF quit \/ todo = {}
       THEN /\ SetPc(w, "exit")
            /\ UNCHANGED <<todo, quit, wlocal>>
       ELSE \E e \in todo :
              /\ todo' = todo \ {e}
              /\ IF is_wrong(wlocal[w].mine)
                 THEN quit' = TRUE /\ SetPc(w, "exit") /\ UNCHANGED wlocal
                 ELSE /\ wlocal' = [wlocal EXCEPT ![w].entry = e]
                      /\ SetPc(w, "ignore")
                      /\ UNCHANGED quit
    /\ UNCHANGED <<pattern_vars, ignore_matcher, cmd_vars, window_vars, current_version, my_version,
                   walker_thread, cmd, last_op, run_vars, ops, freed>>

\* a visit that never consults the ignore pattern
WorkerIgnore_Never(w) ==
    /\ wpc[w] = "ignore"
    /\ SetPc(w, "version") /\ UNCHANGED wlocal
    /\ UNCHANGED <<pattern_vars, ignore_matcher, cmd_vars, window_vars, walker_vars, cmd, last_op,
                   run_vars, ops, freed>>

\* if self.ignore_pattern.any_matches(data) { return WalkState::Continue }
WorkerIgnore(w) ==
    /\ wpc[w] = "ignore"
    /\ IF any_matches(ignore_matcher, wlocal[w].entry)
       THEN Return(w, "next")
       ELSE SetPc(w, "version") /\ UNCHANGED wlocal
    /\ UNCHANGED <<pattern_vars, ignore_matcher, cmd_vars, window_vars, walker_vars, cmd, last_op,
                   run_vars, ops, freed>>

\* let version = self.pattern.version(); // get before test
WorkerVersion(w) ==
    /\ wpc[w] = "version"
    /\ wlocal' = [wlocal EXCEPT ![w].version = pversion]
    /\ SetPc(w, "test")
    /\ UNCHANGED <<pattern_vars, ignore_matcher, cmd_vars, window_vars, walker_vars, cmd, last_op,
                   run_vars, ops, freed>>

\* if self.pattern.all_matches(data) && self.out.add(...)
WorkerTest(w) ==
    /\ wpc[w] = "test"
    /\ IF all_matches(matcher, wlocal[w].entry)
       THEN SetPc(w, "add") /\ UNCHANGED wlocal
       ELSE Return(w, "next")
    /\ UNCHANGED <<pattern_vars, ignore_matcher, cmd_vars, window_vars, walker_vars, cmd, last_op,
                   run_vars, ops, freed>>

\* a capacity test that is off by one: admits a producer when the window is full
HasRoomOffByOne == Cardinality(content) <= size

\* the capacity test of content_add
HasRoom == Cardinality(content) < size

\* Inner::content_add, one turn of its loop: with Inner.lock held (taken on
\* entry, or again on leaving the wait) and the content locked, return None
\* when the walker version is wrong, return the content guard when there is
\* room, and otherwise release the content and go on to wait
ContentAdd(w) ==
    /\ wpc[w] \in {"add", "woken"}
    /\ lock = "none"
    /\ content_lock = "none"
    /\ IF is_wrong(wlocal[w].mine)
       THEN /\ IF w \in Workers
               THEN quit' = TRUE /\ Return(w, "exit")
               ELSE UNCHANGED quit /\ Return(w, "recv")
            /\ UNCHANGED <<lock, content_lock>>
       ELSE IF HasRoom
       THEN /\ content_lock' = w
            /\ SetPc(w, "vcheck")
            /\ UNCHANGED <<lock, quit, wlocal>>
       ELSE /\ lock' = w
            /\ SetPc(w, "prewait")
            /\ UNCHANGED <<content_lock, quit, wlocal>>
    /\ UNCHANGED <<pattern_vars, ignore_matcher, cmd_vars, size, content, cvar, out,
                   current_version, my_version, walker_thread, todo, cmd, last_op, run_vars, ops,
                   freed>>

\* al = self.cvar.wait(al): release Inner.lock and block
CvarWait(w) ==
    /\ wpc[w] = "prewait"
    /\ lock' = "none"
    /\ cvar' = cvar \cup {w}
    /\ SetPc(w, "waiting")
    /\ UNCHANGED <<pattern_vars, ignore_matcher, cmd_vars, size, content, content_lock, out,
                   walker_vars, wlocal, cmd, last_op, run_vars, ops, freed>>

\* Condvar::wait may return without a notification
SpuriousWake(w) ==
    /\ w \in cvar
    /\ cvar' = cvar \ {w}
    /\ SetPc(w, "woken")
    /\ UNCHANGED <<pattern_vars, ignore_matcher, cmd_vars, size, content, content_lock, lock, out,
                   walker_vars, wlocal, cmd, last_op, run_vars, ops, freed>>

\* an add that never re-tests: it goes on to insert whatever the version is
AddWithoutRetest(w) ==
    /\ wpc[w] = "vcheck"
    /\ SetPc(w, "insert")
    /\ UNCHANGED <<pattern_vars, ignore_matcher, cmd_vars, window_vars, walker_vars, wlocal, cmd,
                   last_op, run_vars, ops, freed>>

\* pattern_version == self.pattern.version() || ...
AddVersionCheck(w) ==
    /\ wpc[w] = "vcheck"
    /\ SetPc(w, IF wlocal[w].version = pversion THEN "insert" ELSE "retest")
    /\ UNCHANGED <<pattern_vars, ignore_matcher, cmd_vars, window_vars, walker_vars, wlocal, cmd,
                   last_op, run_vars, ops, freed>>

\* ... || self.pattern.all_matches(value.as_ref())
AddRetest(w) ==
    /\ wpc[w] = "retest"
    /\ IF all_matches(matcher, wlocal[w].entry)
       THEN SetPc(w, "insert") /\ UNCHANGED <<content_lock, wlocal>>
       ELSE Return(w, Resume(w)) /\ content_lock' = "none"
    /\ UNCHANGED <<pattern_vars, ignore_matcher, cmd_vars, size, content, lock, cvar, out,
                   walker_vars, cmd, last_op, run_vars, ops, freed>>

\* an add that sends AddFile whether or not the set took the value
AddInsert_Resend(w) ==
    /\ wpc[w] = "insert"
    /\ content_lock' = "none"
    /\ CanSend
    /\ content' = content \cup {wlocal[w].entry}
    /\ out' = Sent(AddFile(wlocal[w].entry))
    /\ Return(w, Resume(w))
    /\ UNCHANGED <<pattern_vars, ignore_matcher, cmd_vars, size, lock, cvar, walker_vars, cmd,
                   last_op, run_vars, ops, freed>>

\* an add that inserts the value and sends no frame for it
AddInsert_Silent(w) ==
    /\ wpc[w] = "insert"
    /\ content_lock' = "none"
    /\ content' = content \cup {wlocal[w].entry}
    /\ Return(w, Resume(w))
    /\ UNCHANGED <<pattern_vars, ignore_matcher, cmd_vars, size, lock, cvar, out, walker_vars, cmd,
                   last_op, run_vars, ops, freed>>

\* && content.insert(value.clone()) && self.out.send(Msg::AddFile(value)).is_err()
AddInsert(w) ==
    /\ wpc[w] = "insert"
    /\ content_lock' = "none"
    /\ IF wlocal[w].entry \in content
       THEN /\ Return(w, Resume(w))
            /\ UNCHANGED <<content, out, quit>>
       ELSE /\ CanSend
            /\ content' = content \cup {wlocal[w].entry}
            /\ out' = Sent(AddFile(wlocal[w].entry))
            /\ IF connected
               THEN Return(w, Resume(w)) /\ UNCHANGED quit
               \* None: visit() answers WalkState::Quit, the match thread goes on
               ELSE /\ Return(w, IF w \in Workers THEN "exit" ELSE "recv")
                    /\ quit' = (quit \/ w \in Workers)
    /\ UNCHANGED <<pattern_vars, ignore_matcher, cmd_vars, size, lock, cvar, current_version,
                   my_version, walker_thread, todo, cmd, last_op, run_vars, ops, freed>>

\* the spawned thread after walker.visit(): builder.out.done()
WalkerDone ==
    /\ walker_thread = "running"
    /\ \A w \in Workers : wpc[w] = "exit"
    /\ CanSend
    /\ out' = Sent(Frame("WalkDone"))
    /\ log' = Append(log, "WalkDone")
    /\ walker_thread' = "finished"
    /\ wpc' = [w \in Producers |-> IF w \in Workers THEN "off" ELSE wpc[w]]
    /\ UNCHANGED <<pattern_vars, ignore_matcher, is_walking, path, dir_len, match_vars, last_arg, prev_op, size, content, content_lock, lock, cvar,
                   current_version, my_version, todo, quit, wlocal, cmd, last_op, run_vars, ops,
                   freed>>

\* relay_to_out: rx.recv() / rx.try_recv()
Relay ==
    /\ out # << >>
    /\ out' = Tail(out)
    /\ UNCHANGED <<pattern_vars, ignore_matcher, cmd_vars, size, content, content_lock, lock, cvar,
                   walker_vars, worker_vars, cmd, last_op, run_vars, ops, freed>>

(***************************************************************************)
(* The command thread.  A call is a sequence of micro-steps, each atomic   *)
(* with respect to the locks and atomics it touches.                       *)
(***************************************************************************)
Step(op) == [op |-> op, arg |-> 0, text |-> << >>]
StepA(op, arg) == [op |-> op, arg |-> arg, text |-> << >>]
StepT(op, arg, text) == [op |-> op, arg |-> arg, text |-> text]

Idle == cmd = << >>
At(op) == cmd # << >> /\ Head(cmd).op = op

\* the directories that exist, in canonical form
Dirs == {<<"/", "d">>, <<"/", "h", "/", "d">>}

\* the values of the HOME variable: None when it is unset
Homes == {None, Some(<<"/", "h">>)}

\* the arguments a walk command is given
WalkArgs == {<<"/", "d">>, <<"/", "x">>, <<"~", "/", "d">>, <<"~", "/", "x">>}

\* a path without its trailing separators
RECURSIVE Trimmed(_)
Trimmed(p) ==
    IF Len(p) > 1 /\ p[Len(p)] = "/" THEN Trimmed(SubSeq(p, 1, Len(p) - 1)) ELSE p

\* Path::is_dir
is_dir(p) == Trimmed(p) \in Dirs

\* fs::canonicalize of a path that ends with a separator: the canonical path
\* of the directory, an error when there is no such directory
canonicalize(p) == IF is_dir(p) THEN Some(Trimmed(p)) ELSE None

\* PathBuf::push(""): the path ends with a separator afterwards
push_empty(p) == IF p # << >> /\ p[Len(p)] = "/" THEN p ELSE Append(p, "/")

\* Path::starts_with("~/"): the first component of the path is `~`
starts_with_home(p) == p # << >> /\ p[1] = "~" /\ (Len(p) = 1 \/ p[2] = "/")

\* Walker::walk up to self.path.push(""): self.path is assigned first, the
\* `~/` resolution and the is_dir test come after it; err is "none" for Ok
walk(dir, home) ==
    IF starts_with_home(dir)
    THEN IF home = None
         THEN [path |-> dir, err |-> "CdInvalid"]
         ELSE LET rest == SubSeq(dir, 3, Len(dir))
                  c == canonicalize(Unwrap(home) \o <<"/">> \o rest \o <<"/">>)
              IN IF c = None
                 THEN [path |-> dir, err |-> "IoError"]
                 ELSE [path |-> push_empty(Unwrap(c)), err |-> "none"]
    ELSE IF is_dir(dir)
         THEN [path |-> push_empty(dir), err |-> "none"]
         ELSE [path |-> dir, err |-> "NotADirectory"]

\* a command that begins by storing p in self.path
CallWith(name, steps, p) ==
    /\ Idle
    /\ ops < MaxOps
    /\ cmd' = steps
    /\ last_op' = name
    /\ prev_op' = last_op
    /\ ops' = ops + 1
    /\ freed' = FALSE
    /\ path' = p
    /\ UNCHANGED <<pattern_vars, ignore_matcher, is_walking, dir_len, match_vars, last_arg, log, window_vars, walker_vars, worker_vars,
                   run_vars>>

Call(name, steps) ==
    /\ Idle
    /\ ops < MaxOps
    /\ cmd' = steps
    /\ last_op' = name
    /\ prev_op' = last_op
    /\ ops' = ops + 1
    /\ freed' = FALSE
    /\ UNCHANGED <<pattern_vars, ignore_matcher, is_walking, path, dir_len, match_vars, last_arg, log, window_vars, walker_vars, worker_vars,
                   run_vars>>

\* Pattern::add: self.inc_version(); self.write_matcher().add(text)
CallPatternAdd ==
    /\ pversion < MaxVersion
    /\ \E t \in Texts : Call("add", <<Step("inc_version"), StepT("add", 0, t)>>)

\* Pattern::rm
CallPatternRm ==
    /\ pversion < MaxVersion
    /\ \E n \in Amounts : Call("rm", <<Step("inc_version"), StepA("rm", n)>>)

\* Pattern::set
CallPatternSet ==
    /\ pversion < MaxVersion
    /\ \E t \in Texts : Call("set", <<Step("inc_version"), StepT("set", 0, t)>>)

\* Window::remove
CallRemove ==
    \E f \in Files, v \in {0, pversion} : Call("remove", <<StepT("remove", v, f)>>)

\* Window::remove_unmatched
CallRemoveUnmatched == Call("remove_unmatched", <<Step("retain"), Step("retain_next")>>)

\* Window::set_size
CallSetSize ==
    \E n \in Sizes : Call("set_size", <<StepA("store_size", n), StepA("pop_last", n)>>)

\* Window::clear
CallClear == Call("clear", <<StepT("send", 0, "Clear"), Step("clear")>>)

\* Window::redraw
CallRedraw == Call("redraw", <<StepT("send", 0, "Clear"), Step("redraw"), Step("redraw_next")>>)

\* Walker::kill_running
CallKillRunning ==
    /\ current_version < MaxWalkerVersion
    /\ Call("kill_running", <<Step("kill"), Step("killed"), Step("join")>>)

\* Walker::ensure_running
CallEnsureRunning ==
    Call("ensure_running",
         IF walker_thread = "none" THEN <<StepT("send", 0, "WalkStarted"), Step("spawn")>>
         ELSE << >>)

\* Pattern::inc_version
IncVersion ==
    /\ At("inc_version")
    /\ pversion' = pversion + 1
    /\ cmd' = Tail(cmd)
    /\ UNCHANGED <<matcher, scope, history, ignore_matcher, cmd_vars, window_vars, walker_vars,
                   worker_vars, last_op, run_vars, ops, freed>>

Mutate(r) ==
    /\ matcher' = r.m
    /\ scope' = r.scope
    /\ history' = Append(history, r.m)
    /\ cmd' = Tail(cmd)
    /\ UNCHANGED <<pversion, ignore_matcher, cmd_vars, window_vars, walker_vars, worker_vars,
                   last_op, run_vars, ops, freed>>

\* self.write_matcher().add(text)
MatcherAdd == At("add") /\ Mutate(Matcher_add(matcher, Head(cmd).text))

\* self.write_matcher().rm(amount)
MatcherRm == At("rm") /\ Mutate(Matcher_rm(matcher, Head(cmd).arg))

\* self.write_matcher().set(start, text)
MatcherSet == At("set") /\ Mutate(Matcher_set(matcher, Head(cmd).arg, Head(cmd).text))

\* a remove that drops the entry whatever the version and the pattern say
Remove_Unconditional ==
    /\ At("remove")
    /\ content_lock = "none"
    /\ content' = content \ {Head(cmd).text}
    /\ IF content' # content /\ Cardinality(content') < size
       THEN cvar' = {} /\ wpc' = NotifyAll
       ELSE UNCHANGED <<cvar, wpc>>
    /\ freed' = (content' # content /\ Cardinality(content') < size)
    /\ cmd' = Tail(cmd)
    /\ UNCHANGED <<pattern_vars, ignore_matcher, cmd_vars, size, content_lock, lock, out,
                   walker_vars, wlocal, last_op, run_vars, ops>>

\* Inner::remove
Remove ==
    /\ At("remove")
    /\ content_lock = "none"
    /\ LET value == Head(cmd).text
           version == Head(cmd).arg
           removes == /\ version = pversion \/ ~all_matches(matcher, value)
                      /\ value \in content
       IN /\ content' = IF removes THEN content \ {value} ELSE content
          /\ IF removes /\ Cardinality(content') < size
             THEN cvar' = {} /\ wpc' = NotifyAll
             ELSE UNCHANGED <<cvar, wpc>>
          /\ freed' = (removes /\ Cardinality(content') < size)
    /\ cmd' = Tail(cmd)
    /\ UNCHANGED <<pattern_vars, ignore_matcher, cmd_vars, size, content_lock, lock, out,
                   walker_vars, wlocal, last_op, run_vars, ops>>

\* Inner::remove_unmatched: lock the content, let len = content.len()
Retain ==
    /\ At("retain")
    /\ content_lock = "none"
    /\ content_lock' = "cmd"
    /\ cmd' = <<StepA("retain_next", Cardinality(content))>> \o Tail(Tail(cmd))
    /\ UNCHANGED <<pattern_vars, ignore_matcher, cmd_vars, size, content, lock, cvar, out,
                   walker_vars, worker_vars, last_op, run_vars, ops, freed>>

\* a retain that drops the unmatched entries without sending their RmFile
RetainNext_Silent ==
    /\ At("retain_next")
    /\ LET unmatched == {k \in content : ~all_matches(matcher, k)} IN
       /\ content' = content \ unmatched
       /\ IF unmatched = {}
          THEN /\ IF Head(cmd).arg > Cardinality(content)
                  THEN cvar' = {} /\ wpc' = NotifyAll
                  ELSE UNCHANGED <<cvar, wpc>>
               /\ freed' = (Head(cmd).arg > Cardinality(content) /\ HasRoom)
               /\ content_lock' = "none"
               /\ cmd' = Tail(cmd)
          ELSE UNCHANGED <<cvar, wpc, content_lock, cmd, freed>>
    /\ UNCHANGED <<pattern_vars, ignore_matcher, cmd_vars, size, lock, out, walker_vars, wlocal,
                   last_op, run_vars, ops>>

\* content.retain(...): up to and including the next entry that is sent as
\* RmFile and dropped; after the last entry, notify if something was dropped
RetainNext ==
    /\ At("retain_next")
    /\ LET unmatched == {k \in content : ~all_matches(matcher, k)} IN
       IF unmatched = {}
       THEN /\ IF Head(cmd).arg > Cardinality(content)
               THEN cvar' = {} /\ wpc' = NotifyAll
               ELSE UNCHANGED <<cvar, wpc>>
            /\ freed' = (Head(cmd).arg > Cardinality(content) /\ HasRoom)
            /\ content_lock' = "none"
            /\ cmd' = Tail(cmd)
            /\ UNCHANGED <<content, out>>
       ELSE /\ CanSend
            /\ LET k == Head(Ascending(unmatched)) IN
               /\ out' = Sent(RmFile(k))
               /\ content' = content \ {k}
            /\ UNCHANGED <<cvar, wpc, content_lock, cmd, freed>>
    /\ UNCHANGED <<pattern_vars, ignore_matcher, cmd_vars, size, lock, walker_vars, wlocal, last_op,
                   run_vars, ops>>

\* Inner::set_size: self.size.store(value)
StoreSize ==
    /\ At("store_size")
    /\ size' = Head(cmd).arg
    /\ cmd' = Tail(cmd)
    /\ UNCHANGED <<pattern_vars, ignore_matcher, cmd_vars, content, content_lock, lock, cvar, out,
                   walker_vars, worker_vars, last_op, run_vars, ops, freed>>

\* the n smallest entries of S
RECURSIVE Truncated(_, _)
Truncated(S, n) == IF Cardinality(S) <= n THEN S ELSE Truncated(S \ {MaxEntry(S)}, n)

\* Inner::set_size: while value < content.len() { content.pop_last() }
PopLast ==
    /\ At("pop_last")
    /\ content_lock = "none"
    /\ content' = Truncated(content, Head(cmd).arg)
    /\ cmd' = Tail(cmd)
    /\ UNCHANGED <<pattern_vars, ignore_matcher, cmd_vars, size, content_lock, lock, cvar, out,
                   walker_vars, worker_vars, last_op, run_vars, ops, freed>>

\* self.out.send(msg) of a frame without payload
Send ==
    /\ At("send")
    /\ CanSend
    /\ out' = Sent(Frame(Head(cmd).text))
    /\ log' = Append(log, Head(cmd).text)
    /\ cmd' = Tail(cmd)
    /\ UNCHANGED <<pattern_vars, ignore_matcher, is_walking, path, dir_len, match_vars, last_arg, prev_op, size, content, content_lock, lock, cvar,
                   walker_vars, worker_vars, last_op, run_vars, ops, freed>>

\* Inner::clear after its send: content.clear(); self.cvar.notify_all()
Clear ==
    /\ At("clear")
    /\ content_lock = "none"
    /\ content' = {}
    /\ cvar' = {}
    /\ wpc' = NotifyAll
    /\ freed' = (content # {} /\ size > 0)
    /\ cmd' = Tail(cmd)
    /\ UNCHANGED <<pattern_vars, ignore_matcher, cmd_vars, size, content_lock, lock, out,
                   walker_vars, wlocal, last_op, run_vars, ops>>

\* Inner::redraw after its send: lock the content
Redraw ==
    /\ At("redraw")
    /\ content_lock = "none"
    /\ content_lock' = "cmd"
    /\ cmd' = <<StepT("redraw_next", 0, Ascending(content))>> \o Tail(Tail(cmd))
    /\ UNCHANGED <<pattern_vars, ignore_matcher, cmd_vars, size, content, lock, cvar, out,
                   walker_vars, worker_vars, last_op, run_vars, ops, freed>>

\* for entry in content.iter() { self.out.send(Msg::AddFile(entry)) }
RedrawNext ==
    /\ At("redraw_next")
    /\ IF Head(cmd).text = << >>
       THEN /\ content_lock' = "none"
            /\ cmd' = Tail(cmd)
            /\ UNCHANGED out
       ELSE /\ CanSend
            /\ out' = Sent(AddFile(Head(Head(cmd).text)))
            /\ cmd' = <<StepT("redraw_next", 0, Tail(Head(cmd).text))>> \o Tail(cmd)
            /\ UNCHANGED content_lock
    /\ UNCHANGED <<pattern_vars, ignore_matcher, cmd_vars, size, content, lock, cvar, walker_vars,
                   worker_vars, last_op, run_vars, ops, freed>>

\* a kill that leaves the walker version as it is
Kill_NoBump ==
    /\ At("kill")
    /\ cmd' = Tail(cmd)
    /\ UNCHANGED <<pattern_vars, ignore_matcher, cmd_vars, window_vars, walker_vars, worker_vars,
                   last_op, run_vars, ops, freed>>

\* WalkerVersion::kill
Kill ==
    /\ At("kill")
    /\ current_version' = current_version + 1
    /\ cmd' = Tail(cmd)
    /\ UNCHANGED <<pattern_vars, ignore_matcher, cmd_vars, window_vars, my_version, walker_thread,
                   todo, quit, worker_vars, last_op, run_vars, ops, freed>>

\* Inner::killed
Killed ==
    /\ At("killed")
    /\ content_lock = "none"
    /\ cvar' = {}
    /\ wpc' = NotifyAll
    /\ cmd' = Tail(cmd)
    /\ UNCHANGED <<pattern_vars, ignore_matcher, cmd_vars, size, content, content_lock, lock, out,
                   walker_vars, wlocal, last_op, run_vars, ops, freed>>

\* a kill_running that takes the handle and does not join the thread
JoinNoWait ==
    /\ At("join")
    /\ walker_thread' = "none"
    /\ cmd' = Tail(cmd)
    /\ UNCHANGED <<pattern_vars, ignore_matcher, cmd_vars, window_vars, current_version, my_version,
                   todo, quit, worker_vars, last_op, run_vars, ops, freed>>

\* kill_running: let Some(t) = self.walker_thread.take() else { return }; t.join()
Join ==
    /\ At("join")
    /\ walker_thread # "running"
    /\ walker_thread' = "none"
    /\ cmd' = Tail(cmd)
    /\ UNCHANGED <<pattern_vars, ignore_matcher, cmd_vars, window_vars, current_version, my_version,
                   todo, quit, worker_vars, last_op, run_vars, ops, freed>>

\* ensure_running: walker_version.start(); thread::spawn(walker.visit(builder))
Spawn ==
    /\ At("spawn")
    /\ my_version' = current_version
    /\ walker_thread' = "running"
    /\ todo' = Files
    /\ quit' = FALSE
    /\ wpc' = [w \in Producers |-> IF w \in Workers THEN "next" ELSE wpc[w]]
    /\ wlocal' = [w \in Producers |->
                     IF w \in Workers THEN [NoLocal EXCEPT !.mine = current_version]
                     ELSE wlocal[w]]
    /\ cmd' = Tail(cmd)
    /\ UNCHANGED <<pattern_vars, ignore_matcher, cmd_vars, window_vars, current_version, last_op,
                   run_vars, ops, freed>>

Worker ==
    \E w \in Workers :
       \/ WorkerNext(w) \/ WorkerIgnore(w) \/ WorkerVersion(w) \/ WorkerTest(w)
       \/ ContentAdd(w) \/ CvarWait(w) \/ AddVersionCheck(w) \/ AddRetest(w) \/ AddInsert(w)

Spurious == \E w \in Workers : SpuriousWake(w)

Calls ==
    \/ CallPatternAdd \/ CallPatternRm \/ CallPatternSet \/ CallRemove \/ CallRemoveUnmatched
    \/ CallSetSize \/ CallClear \/ CallRedraw \/ CallKillRunning \/ CallEnsureRunning

Command ==
    \/ IncVersion \/ MatcherAdd \/ MatcherRm \/ MatcherSet \/ Remove \/ Retain \/ RetainNext
    \/ StoreSize \/ PopLast \/ Send \/ Clear \/ Redraw \/ RedrawNext \/ Kill \/ Killed \/ Join
    \/ Spawn

Next == Worker \/ Spurious \/ WalkerDone \/ Relay \/ Calls \/ Command

Spec == Init /\ [][Next]_vars

(***************************************************************************)
(* Window contract                                                         *)
(***************************************************************************)
\* worker w is inside Window::add
InAdd(w) == wpc[w] \in {"add", "prewait", "waiting", "woken", "vcheck", "retest", "insert"}

\* the command thread is inside Window::set_size
InSetSize == At("store_size") \/ At("pop_last")

\* C1: whenever no add and no set_size call is in progress, the window holds
\* at most `size` entries
C1_Capacity ==
    ((\A w \in Workers : ~InAdd(w)) /\ ~InSetSize) => Cardinality(content) <= size

\* a shrinking set_size has returned with the window full and no add in progress
C1_Witness ==
    /\ Idle /\ last_op = "set_size"
    /\ size = 1 /\ Cardinality(content) = 1
    /\ \A w \in Workers : ~InAdd(w)
    /\ \E w \in Workers : wpc[w] = "exit"

\* C2: inside Window::add, with the content locked, a value whose version is
\* still the pattern's version is inserted without a re-test; a value whose
\* version differs is re-tested and inserted iff all_matches holds at that
\* moment; and nothing else adds to the content
C2_StaleRetest ==
    [][\A w \in Workers :
         LET e == wlocal[w].entry IN
         /\ (wpc[w] = "vcheck" /\ wpc'[w] # "vcheck") =>
              IF wlocal[w].version = pversion
              THEN e \in content \/ wpc'[w] = "insert"
              ELSE wpc'[w] = "retest"
         /\ (wpc[w] = "retest" /\ wpc'[w] # "retest") =>
              (wpc'[w] = "insert" <=> all_matches(matcher, e))
         /\ (wpc[w] = "retest" /\ wpc'[w] # "retest" /\ wpc'[w] # "insert") =>
              content' = content
         /\ (wpc[w] = "insert" /\ wpc'[w] # "insert") => content' = content \cup {e}
         /\ (e \in content' \ content) => wpc[w] = "insert"
      ]_vars

\* a producer holds the content lock with a stale version and a value that the
\* pattern no longer matches
C2_Witness ==
    \E w \in Workers :
       /\ wpc[w] = "retest"
       /\ wlocal[w].version # pversion
       /\ ~all_matches(matcher, wlocal[w].entry)

\* C3: an entry a worker inserts after reading version v matches the matcher
\* produced by the v-th mutation or by a later one (stated for inserts made
\* once the v-th mutation has been carried out)
C3_NoOlderView ==
    \A w \in Workers :
       (wpc[w] = "insert" /\ wlocal[w].entry \notin content /\ wlocal[w].version < Len(history)) =>
          \E j \in wlocal[w].version..(Len(history) - 1) :
             all_matches(history[j + 1], wlocal[w].entry)

\* C14: set_size(n) called while |content| > n removes exactly the
\* |content| - n largest entries in byte order, keeps every other entry, and
\* sends no frame
C14_ShrinkEvictsLargest ==
    [][/\ (At("store_size") /\ cmd' = Tail(cmd)) => (content' = content /\ out' = out)
       /\ (At("pop_last") /\ cmd' = Tail(cmd)) =>
            /\ content' \subseteq content
            /\ Cardinality(content') = Min(Head(cmd).arg, Cardinality(content))
            /\ \A x \in content \ content', y \in content' : BytesLess(y, x)
            /\ out' = out
      ]_vars

\* the walk has put both files into a window of size 2 and a set_size(1) has
\* then returned: "s" is gone and "a" is kept
C14_Witness ==
    /\ Idle /\ last_op = "set_size"
    /\ size = 1 /\ content = {<<"a">>}
    /\ walker_thread # "none" /\ todo = {} /\ ~quit
    /\ \A w \in Workers : wpc[w] \in {"exit", "off"}
    /\ Len(history) = 1

(***************************************************************************)
(* Backpressure liveness, in the form a finite run refutes: a producer     *)
(* that the code promises to wake is never left in a state where no        *)
(* thread can take a step.  A wait may return spuriously, but nothing      *)
(* makes it, and the command thread need not make another call; neither    *)
(* counts as progress.                                                     *)
(***************************************************************************)
Progress == Worker \/ WalkerDone \/ Relay \/ Command

\* worker w has seen the window full and waits, or is about to wait
Blocked(w) == wpc[w] \in {"prewait", "waiting"}

\* C4: once kill() and killed() have run, the producers inside Window::add
\* return and kill_running's join completes: while the join is pending some
\* thread can always take a step
C4_KillWakes == At("join") => ENABLED Progress

\* C5: a producer blocked on a full window resumes once a remove,
\* remove_unmatched or clear has brought |content| below size while its
\* walker version is right: it is not left blocked, with room in the window,
\* where no thread can take a step
C5_RemoveWakes ==
    \A w \in Workers :
       (Idle /\ freed /\ Blocked(w) /\ HasRoom /\ ~is_wrong(wlocal[w].mine)) => ENABLED Progress

\* C6: a producer waiting on a full window resumes once set_size has made
\* room: it is not left waiting, with room in the window, where no thread
\* can take a step
C6_SetSizeWakes ==
    \A w \in Workers :
       (Idle /\ last_op = "set_size" /\ w \in cvar /\ HasRoom /\ ~is_wrong(wlocal[w].mine))
          => ENABLED Progress
(***************************************************************************)
(* The Pattern API on its own: each step is one whole call of a single     *)
(* caller (src/pattern.rs, impl Pattern)                                   *)
(***************************************************************************)
\* number of Pattern calls
MaxPatOps == 3

\* arguments of Pattern.add / Pattern.set
PatTexts ==
    {<<"a">>, <<"*", "a">>, <<"|", "s">>, <<"(">>, <<" ", "s">>, <<"<", "a">>, <<">", "s">>,
     <<"a", "\\">>, <<"<", "s", "\\">>, <<" ", ">", "a">>}
\* arguments of Pattern.rm
PatAmounts == {0, 1, 4}
\* arguments of Pattern.set
Starts == {0, 1, 4}
\* arguments of Pattern.skip_prefix
Prefixes == {0, 1}
\* the lines and paths matched against the pattern
Haystacks == {<<"a">>, <<"s">>, <<"a", "s">>, <<"s", "a">>, <<" ">>}

\* one call: inc says whether the method calls inc_version(), n and text
\* are its arguments, r is the matcher it leaves and the PatternScope it
\* returns
PatternCall(name, inc, n, text, r) ==
    /\ ops < MaxPatOps
    /\ pversion' = IF inc THEN pversion + 1 ELSE pversion
    /\ matcher' = r.m
    /\ scope' = r.scope
    /\ history' = Append(history, r.m)
    /\ last_op' = name
    /\ prev_op' = last_op
    /\ last_arg' = [n |-> n, text |-> text]
    /\ ops' = ops + 1
    /\ UNCHANGED <<ignore_matcher, is_walking, path, dir_len, match_vars, log, window_vars, walker_vars, worker_vars,
                   cmd, freed, run_vars>>

\* Pattern::add
Pattern_add == \E t \in PatTexts : PatternCall("add", TRUE, 0, t, Matcher_add(matcher, t))

\* Pattern::rm
Pattern_rm ==
    \E n \in PatAmounts : PatternCall("rm", TRUE, n, << >>, Matcher_rm(matcher, n))

\* Pattern::set
Pattern_set ==
    \E n \in Starts, t \in PatTexts :
       PatternCall("set", TRUE, n, t, Matcher_set(matcher, n, t))

\* Pattern::skip_prefix
Pattern_skip_prefix ==
    \E n \in Prefixes :
       PatternCall("skip_prefix", FALSE, n, << >>,
                   [m |-> Matcher_skip_prefix(matcher, n), scope |-> scope])

\* Pattern::reset
Pattern_reset ==
    PatternCall("reset", FALSE, 0, << >>, [m |-> Matcher_reset(matcher), scope |-> scope])

NextPat == Pattern_add \/ Pattern_rm \/ Pattern_set \/ Pattern_skip_prefix \/ Pattern_reset

SpecPat == Init /\ [][NextPat]_vars

\* C9: every Pattern mutation, add, rm, set, reset and skip_prefix alike,
\* strictly increases version()
C9_VersionIncreases == [][ops' = ops + 1 => pversion' > pversion]_vars

\* C10: an add or set that returns Narrow leaves every haystack that did not
\* match before the call unmatched after it
C10_NarrowMonotone ==
    [][(ops' = ops + 1 /\ last_op' \in {"add", "set"} /\ scope' = Narrow) =>
         \A h \in Haystacks : ~all_matches(matcher, h) => ~all_matches(matcher', h)]_vars
\* a state reset() leaves as it is
IsReset(m) == Matcher_reset(m) = m

\* the pattern a caller builds with reset(); add(t) on a pattern that skips
\* the same prefix
Built(m, t) == Matcher_add([DefaultMatcher EXCEPT !.skip_prefix = m.skip_prefix], t).m

\* the call just made is Pattern.name
Called(name) == ops' = ops + 1 /\ last_op' = name

\* C11: after reset(); add(t); rm(k) the text is t without its last
\* min(k, |t|) bytes, and all_matches and any_matches agree on every haystack
\* with those of a pattern built by reset(); add(t[..|t|-k])
C11_RmRoundTrip ==
    [][(Called("rm") /\ last_op = "add" /\ IsReset(history[Len(history) - 1])) =>
         LET t == last_arg.text
             k == last_arg'.n
             t2 == Take(t, Len(t) - Min(k, Len(t)))
         IN /\ matcher'.text = t2
            /\ \A h \in Haystacks :
                  /\ all_matches(matcher', h) = all_matches(Built(matcher', t2), h)
                  /\ any_matches(matcher', h) = any_matches(Built(matcher', t2), h)]_vars

\* a set that has rebuilt the buffer: it neither appended at the end nor
\* found the replaced suffix at the head of its text
SetRebuild(m, n, t) ==
    /\ Min(n, Len(m.text)) < Len(m.text)
    /\ ~starts_with(t, Drop(m.text, Min(n, Len(m.text))))

\* a set with a start inside the text that went down its append path
SetAppend(m, n, t) ==
    /\ Min(n, Len(m.text)) < Len(m.text)
    /\ starts_with(t, Drop(m.text, Min(n, Len(m.text))))

\* C12: after set(start, s) the text is text_pre[..min(start, |text_pre|)] + s,
\* on the append paths and on the rebuild path
C12_SetText ==
    [][Called("set") =>
         matcher'.text = Take(matcher.text, Min(last_arg'.n, Len(matcher.text))) \o last_arg'.text
      ]_vars

\* set has rebuilt a buffer, and set has appended to a suffix it found: here
\* the first set went down the append path and the second rebuilt
C12_Witness ==
    /\ last_op = "set" /\ Len(history) >= 3
    /\ SetRebuild(history[Len(history) - 1], last_arg.n, last_arg.text)
    /\ \E n \in Starts :
          SetAppend(history[Len(history) - 2], n, Drop(history[Len(history) - 1].text, n))

\* C13: all_matches(h) iff the text is empty, or h without its first
\* skip_prefix bytes starts with starts_with (when set), ends with ends_with
\* (when set) and matches every regex; any_matches(h) iff the text is not
\* empty and one of those that is set holds
C13_Matches ==
    \A h \in Haystacks :
       LET m == matcher
           a == SubSeq(h, Min(Len(h), m.skip_prefix) + 1, Len(h))
           pre == m.starts_with # None
           suf == m.ends_with # None
           prefix == Len(m.starts_with[1]) <= Len(a)
                     /\ \A i \in 1..Len(m.starts_with[1]) : a[i] = m.starts_with[1][i]
           suffix == Len(m.ends_with[1]) <= Len(a)
                     /\ \A i \in 1..Len(m.ends_with[1]) :
                           a[Len(a) - Len(m.ends_with[1]) + i] = m.ends_with[1][i]
       IN /\ all_matches(m, h) <=>
               \/ m.text = << >>
               \/ /\ pre => prefix
                  /\ suf => suffix
                  /\ \A i \in 1..Len(m.patterns) : is_match(m.patterns[i], a)
          /\ any_matches(m, h) <=>
               /\ m.text # << >>
               /\ \/ pre /\ prefix
                  \/ suf /\ suffix
                  \/ \E i \in 1..Len(m.patterns) : is_match(m.patterns[i], a)
          /\ m.text = << >> => (all_matches(m, h) /\ ~any_matches(m, h))

\* a pattern with a prefix, a regex and a skipped byte that accepts one
\* haystack and rejects another
C13_Witness ==
    /\ matcher.text # << >> /\ matcher.skip_prefix > 0
    /\ matcher.starts_with # None /\ matcher.patterns # << >>
    /\ \E h1, h2 \in Haystacks :
          /\ all_matches(matcher, h1)
          /\ ~all_matches(matcher, h2) /\ any_matches(matcher, h2)

(***************************************************************************)
(* The server loop: server::run and main (src/server/mod.rs,               *)
(* src/bin/koru_find.rs).  No walk succeeds and no match thread is         *)
(* started here, so is_walking stays false, no thread but the relay runs   *)
(* beside the loop, and the window content stays empty.                    *)
(***************************************************************************)
\* number of frames the client sends
MaxFrames == 3

\* the command names Walker::command knows
KnownCommands ==
    {"walk", "match", "stop", "add", "ignore", "skip-prefix", "rm", "set", "redraw", "window_size"}

\* the frames the client may send: utf8 tells whether the bytes are valid
\* UTF-8, ct and arg are the two halves split_at_space gives
Frames ==
    {[utf8 |-> TRUE, ct |-> "bogus", arg |-> << >>],
     [utf8 |-> FALSE, ct |-> "add", arg |-> <<"a">>],
     [utf8 |-> TRUE, ct |-> "window_size", arg |-> <<"2">>],
     [utf8 |-> TRUE, ct |-> "window_size", arg |-> <<"x">>],
     [utf8 |-> TRUE, ct |-> "rm", arg |-> <<"1">>],
     [utf8 |-> TRUE, ct |-> "rm", arg |-> << >>],
     [utf8 |-> TRUE, ct |-> "skip-prefix", arg |-> <<"1">>],
     [utf8 |-> TRUE, ct |-> "skip-prefix", arg |-> <<"-", "1">>],
     [utf8 |-> TRUE, ct |-> "add", arg |-> <<"a">>],
     [utf8 |-> TRUE, ct |-> "add", arg |-> <<">", "s">>],
     [utf8 |-> TRUE, ct |-> "redraw", arg |-> << >>],
     [utf8 |-> TRUE, ct |-> "walk", arg |-> <<"/", "x">>]}

DigitChars == <<"0", "1", "2", "3", "4", "5", "6", "7", "8", "9">>
IsDigit(c) == \E d \in 1..Len(DigitChars) : DigitChars[d] = c
DigitValue(c) == (CHOOSE d \in 1..Len(DigitChars) : DigitChars[d] = c) - 1

\* arg.parse::<usize>() of a string of digits; anything else is an error
RECURSIVE ParseDigits(_, _)
ParseDigits(acc, arg) ==
    IF arg = << >> THEN acc ELSE ParseDigits(acc * 10 + DigitValue(Head(arg)), Tail(arg))

parse(arg) ==
    IF arg # << >> /\ \A i \in 1..Len(arg) : IsDigit(arg[i])
    THEN Some(ParseDigits(0, arg))
    ELSE None

\* the error Walker::command returns for a frame, "none" when it returns Ok
CommandError(f) ==
    IF f.ct \notin KnownCommands THEN "UnknownCommand"
    ELSE IF f.ct \in {"skip-prefix", "rm", "window_size"} /\ ~IsSome(parse(f.arg))
    THEN "InvalidArgument"
    ELSE "none"

Reading == result = "Running" /\ frame = None /\ exit_code = None
Dispatching(ct) ==
    /\ result = "Running" /\ exit_code = None
    /\ IsSome(frame) /\ Unwrap(frame).utf8 /\ Unwrap(frame).ct = ct

\* commander.read() returns Ok(()): a whole frame is in the buffer
ReadFrame ==
    /\ Reading /\ input = "open"
    /\ ops < MaxFrames
    /\ \E f \in Frames : frame' = Some(f)
    /\ ops' = ops + 1
    /\ UNCHANGED <<pattern_vars, ignore_matcher, cmd_vars, window_vars, walker_vars, worker_vars,
                   cmd, last_op, freed, input, result, exit_code, reader_vars, connected, client>>

\* commander.read()?: the input gave 0 bytes, read returns Err(Eof) and run returns it
ReadEof ==
    /\ Reading /\ input = "open"
    /\ input' = "eof"
    /\ result' = "Eof"
    /\ UNCHANGED <<pattern_vars, ignore_matcher, cmd_vars, window_vars, walker_vars, worker_vars,
                   cmd, last_op, ops, freed, frame, exit_code, reader_vars, connected, client>>

\* commander.read()?: the input failed, read returns Err(IoError) and run returns it
ReadError ==
    /\ Reading /\ input = "open"
    /\ input' = "error"
    /\ result' = "IoError"
    /\ UNCHANGED <<pattern_vars, ignore_matcher, cmd_vars, window_vars, walker_vars, worker_vars,
                   cmd, last_op, ops, freed, frame, exit_code, reader_vars, connected, client>>

\* the rest of the loop body after a command: Ok goes round the loop, Err
\* leaves run through the `?`
Dispatched(ct, err) ==
    /\ frame' = None
    /\ last_op' = ct
    /\ prev_op' = last_op
    /\ result' = IF err = "none" THEN result ELSE err
    /\ UNCHANGED <<walker_vars, worker_vars, cmd, ops, freed, input, exit_code, reader_vars, connected, client, content_lock,
                   lock, cvar>>

\* get_cmd() returns Err(Utf8Error): walker.message("Command read error: ...")
GetCmdError ==
    /\ result = "Running" /\ exit_code = None
    /\ IsSome(frame) /\ ~Unwrap(frame).utf8
    /\ CanSend
    /\ out' = Sent(Frame("Message"))
    /\ log' = Append(log, "Message")
    /\ Dispatched("none", "none")
    /\ UNCHANGED <<pattern_vars, ignore_matcher, is_walking, path, dir_len, match_vars, last_arg, size, content>>

\* Walker::command, `_ => return Err(Error::UnknownCommand(ct.to_string()))`
CmdUnknown ==
    /\ result = "Running" /\ exit_code = None
    /\ IsSome(frame) /\ Unwrap(frame).utf8 /\ Unwrap(frame).ct \notin KnownCommands
    /\ Dispatched(Unwrap(frame).ct, CommandError(Unwrap(frame)))
    /\ UNCHANGED <<pattern_vars, ignore_matcher, is_walking, path, dir_len, match_vars, last_arg, size, content, out, log>>

\* "walk": the directory does not exist, walk returns Err(NotADirectory) and
\* command reports it with self.message(...)
CmdWalk ==
    /\ Dispatching("walk")
    /\ \E home \in Homes :
          LET r == walk(Unwrap(frame).arg, home) IN
          /\ r.err # "none"
          /\ path' = r.path
    /\ CanSend
    /\ out' = Sent(Frame("Message"))
    /\ log' = Append(log, "Message")
    /\ Dispatched("walk", CommandError(Unwrap(frame)))
    /\ UNCHANGED <<pattern_vars, ignore_matcher, is_walking, dir_len, match_vars, last_arg, size, content>>

\* change_pattern(scope) with is_walking false and nothing in the window:
\* Narrow removes the unmatched entries, anything else asks for a resync
ChangePattern(sc) ==
    IF sc = Narrow
    THEN content = {} /\ UNCHANGED <<out, log>>
    ELSE /\ CanSend
         /\ out' = Sent(Frame("Resync"))
         /\ log' = Append(log, "Resync")

\* "add" => self.change_pattern(self.pattern.add(arg))
CmdAdd ==
    /\ Dispatching("add")
    /\ LET r == Matcher_add(matcher, Unwrap(frame).arg) IN
       /\ pversion' = pversion + 1
       /\ matcher' = r.m
       /\ scope' = r.scope
       /\ history' = Append(history, r.m)
       /\ ChangePattern(r.scope)
    /\ Dispatched("add", CommandError(Unwrap(frame)))
    /\ UNCHANGED <<ignore_matcher, is_walking, path, dir_len, match_vars, last_arg, size, content>>

\* "rm" => self.change_pattern(self.pattern.rm(arg.parse()?))
CmdRm ==
    /\ Dispatching("rm")
    /\ LET n == parse(Unwrap(frame).arg) IN
       IF IsSome(n)
       THEN LET r == Matcher_rm(matcher, Unwrap(n)) IN
            /\ pversion' = pversion + 1
            /\ matcher' = r.m
            /\ scope' = r.scope
            /\ history' = Append(history, r.m)
            /\ ChangePattern(r.scope)
       ELSE UNCHANGED <<pattern_vars, out, log>>
    /\ Dispatched("rm", CommandError(Unwrap(frame)))
    /\ UNCHANGED <<ignore_matcher, is_walking, path, dir_len, match_vars, last_arg, size, content>>

\* "skip-prefix": both patterns skip n bytes, then change_pattern(Change)
CmdSkipPrefix ==
    /\ Dispatching("skip-prefix")
    /\ LET n == parse(Unwrap(frame).arg) IN
       IF IsSome(n)
       THEN /\ ignore_matcher' = Matcher_skip_prefix(ignore_matcher, Unwrap(n))
            /\ matcher' = Matcher_skip_prefix(matcher, Unwrap(n))
            /\ history' = Append(history, matcher')
            /\ ChangePattern(Change)
            /\ UNCHANGED <<pversion, scope>>
       ELSE UNCHANGED <<pattern_vars, ignore_matcher, out, log>>
    /\ Dispatched("skip-prefix", CommandError(Unwrap(frame)))
    /\ UNCHANGED <<size, content, is_walking, path, dir_len, match_vars, last_arg>>

\* "window_size" => self.visitor.out.set_size(arg.parse()?)
CmdWindowSize ==
    /\ Dispatching("window_size")
    /\ LET n == parse(Unwrap(frame).arg) IN
       IF IsSome(n)
       THEN size' = Unwrap(n) /\ content' = Truncated(content, Unwrap(n))
       ELSE UNCHANGED <<size, content>>
    /\ Dispatched("window_size", CommandError(Unwrap(frame)))
    /\ UNCHANGED <<pattern_vars, ignore_matcher, is_walking, path, dir_len, match_vars, last_arg, out, log>>

\* "redraw" => self.visitor.out.redraw(), with nothing in the window
CmdRedraw ==
    /\ Dispatching("redraw")
    /\ content = {}
    /\ CanSend
    /\ out' = Sent(Frame("Clear"))
    /\ log' = Append(log, "Clear")
    /\ Dispatched("redraw", CommandError(Unwrap(frame)))
    /\ UNCHANGED <<pattern_vars, ignore_matcher, is_walking, path, dir_len, match_vars, last_arg, size, content>>

\* main: Ok(_) => process::exit(0), Err(err) => process::exit(1)
Main ==
    /\ result # "Running"
    /\ exit_code = None
    /\ exit_code' = Some(IF result = "Ok" THEN 0 ELSE 1)
    /\ UNCHANGED <<pattern_vars, ignore_matcher, cmd_vars, window_vars, walker_vars, worker_vars,
                   cmd, last_op, ops, freed, input, frame, result, reader_vars, connected, client>>

NextRun ==
    \/ ReadFrame \/ ReadEof \/ ReadError \/ GetCmdError \/ CmdUnknown \/ CmdWalk \/ CmdAdd
    \/ CmdRm \/ CmdSkipPrefix \/ CmdWindowSize \/ CmdRedraw \/ Relay \/ Main

SpecRun == Init /\ [][NextRun]_vars

\* C7: an error returned while a command is processed is reported as a
\* message frame and the loop goes on; only an error of the input reader
\* ends the loop
C7_CommandErrorsReported ==
    [][(IsSome(frame) /\ frame' = None /\ Unwrap(frame).utf8
          /\ CommandError(Unwrap(frame)) # "none") =>
         (result' = "Running" /\ out' = Append(out, Frame("Message")))]_vars

\* C8: once the input has reached end of file, run has returned a success
\* result and the process exits with status 0
C8_EofSuccess ==
    /\ input = "eof" => result = "Ok"
    /\ (input = "eof" /\ IsSome(exit_code)) => Unwrap(exit_code) = 0
(***************************************************************************)
(* Walker::command (src/server/walker.rs): the commands of the protocol,   *)
(* each the sequence of micro-steps its arm of the match makes, run beside *)
(* the traversal's workers, the match thread and the relay.                *)
(***************************************************************************)
\* the lines a client sends with `match`
Lines == Files

\* kill_running: self.visitor.kill(); walker_thread.take(); t.join()
kill_running == <<Step("kill"), Step("killed"), Step("join")>>

\* a clear that sends the frame and leaves the content as it is
clear_SendOnly == <<StepT("send", 0, "Clear")>>

\* Window::clear
clear == <<StepT("send", 0, "Clear"), Step("clear")>>

\* Window::remove_unmatched
remove_unmatched == <<Step("retain"), Step("retain_next")>>

\* the directory the client walks
WalkDir == <<"/", "d">>

\* "walk": walk(arg) with a directory that exists, then ensure_running()
Command_walk ==
    /\ walk(WalkDir, None).err = "none"
    /\ CallWith("walk", kill_running \o <<Step("kill_match_thread"), StepA("is_walking", 1),
                                        Step("ensure_running")>>,
                walk(WalkDir, None).path)

\* "walk": walk(arg) returns an error, which command reports with
\* self.message(...); self.path holds what walk stored in it
Command_walk_failed ==
    \E d \in WalkArgs, home \in Homes :
        LET r == walk(d, home) IN
        /\ r.err # "none"
        /\ CallWith("walk", <<StepT("send", 0, "Message")>>, r.path)

\* "match" => self.match_line(arg)
Command_match == \E l \in Lines : Call("match", <<StepT("match_line", 0, l)>>)

\* "stop"
Command_stop ==
    Call("stop", <<StepA("is_walking", 0)>> \o kill_running \o clear
                   \o <<Step("reset"), StepA("skip_prefix", 0),
                        Step("ignore_reset"), StepA("ignore_skip_prefix", 0)>>)

\* "add" => self.change_pattern(self.pattern.add(arg))
Command_add ==
    \E t \in Texts :
       Call("add", <<Step("inc_version"), StepT("add", 0, t), Step("change_pattern")>>)

\* "ignore"
Command_ignore ==
    \E t \in Texts : Call("ignore", <<StepT("ignore_set", 0, t)>> \o kill_running \o clear)

\* "rm" => self.change_pattern(self.pattern.rm(n))
Command_rm ==
    \E n \in Amounts :
       Call("rm", <<Step("inc_version"), StepA("rm", n), Step("change_pattern")>>)

\* "set" => self.change_pattern(self.pattern.set(start, text))
Command_set ==
    \E t \in Texts :
       Call("set", <<Step("inc_version"), StepT("set", 0, t), Step("change_pattern")>>)

\* "skip-prefix": both patterns skip n bytes, then change_pattern(Change)
Command_skip_prefix ==
    \E n \in Prefixes \ {0} :
       Call("skip-prefix", <<StepA("ignore_skip_prefix", n), StepA("skip_prefix", n),
                             StepA("change_pattern", 1)>>)

\* self.is_walking = ...
SetIsWalking ==
    /\ At("is_walking")
    /\ is_walking' = (Head(cmd).arg = 1)
    /\ dir_len' = (IF Head(cmd).arg = 1 THEN Len(path) ELSE dir_len)
    /\ cmd' = Tail(cmd)
    /\ UNCHANGED <<path, pattern_vars, ignore_matcher, match_vars, last_arg, log, prev_op, window_vars,
                   walker_vars, worker_vars, last_op, run_vars, ops, freed>>

\* a change_pattern that restarts the traversal whatever the scope is
change_pattern_AlwaysRestart ==
    /\ At("change_pattern")
    /\ cmd' = (IF is_walking
               THEN kill_running \o remove_unmatched \o <<Step("ensure_running")>>
               ELSE <<Step("kill_match_thread"), StepT("send", 0, "Resync")>>) \o Tail(cmd)
    /\ UNCHANGED <<pattern_vars, ignore_matcher, cmd_vars, window_vars, walker_vars, worker_vars,
                   last_op, run_vars, ops, freed>>

\* the scope change_pattern is called with: Change when the step says so
\* (arg 1), or else the one the pattern mutation before it returned
ScopeArg == IF Head(cmd).arg = 1 THEN Change ELSE scope

\* Walker::change_pattern: the branch it takes
change_pattern ==
    /\ At("change_pattern")
    /\ cmd' = (IF ScopeArg = Narrow THEN remove_unmatched
               ELSE IF is_walking
               THEN kill_running \o remove_unmatched \o <<Step("ensure_running")>>
               ELSE <<Step("kill_match_thread"), StepT("send", 0, "Resync")>>) \o Tail(cmd)
    /\ UNCHANGED <<pattern_vars, ignore_matcher, cmd_vars, window_vars, walker_vars, worker_vars,
                   last_op, run_vars, ops, freed>>

\* Walker::ensure_running: if self.walker_thread.is_none() { started; spawn }
ensure_running ==
    /\ At("ensure_running")
    /\ cmd' = (IF walker_thread = "none" THEN <<StepT("send", 0, "WalkStarted"), Step("spawn")>>
               ELSE << >>) \o Tail(cmd)
    /\ UNCHANGED <<pattern_vars, ignore_matcher, cmd_vars, window_vars, walker_vars, worker_vars,
                   last_op, run_vars, ops, freed>>

\* Walker::kill_match_thread up to the join: take the handle, drop the sender
kill_match_thread ==
    /\ At("kill_match_thread")
    /\ IF match_thread = "none"
       THEN cmd' = Tail(cmd) /\ UNCHANGED <<match_thread, match_sender>>
       ELSE /\ match_thread' = "none"
            /\ match_sender' = FALSE
            /\ cmd' = <<Step("join_match")>> \o Tail(cmd)
    /\ UNCHANGED <<pattern_vars, ignore_matcher, is_walking, path, dir_len, match_queue, last_arg, log, prev_op,
                   window_vars, walker_vars, worker_vars, last_op, run_vars, ops, freed>>

\* kill_match_thread: let _ = t.join()
JoinMatch ==
    /\ At("join_match")
    /\ wpc["sink"] = "exit"
    /\ SetPc("sink", "off")
    /\ cmd' = Tail(cmd)
    /\ UNCHANGED <<pattern_vars, ignore_matcher, cmd_vars, window_vars, walker_vars, wlocal,
                   last_op, run_vars, ops, freed>>

\* Walker::match_line: start the match thread if there is none, then send
\* the line to it unless the ignore pattern matches the line
match_line ==
    /\ At("match_line")
    /\ IF match_thread = "none"
       THEN /\ match_thread' = "running"
            /\ match_sender' = TRUE
            /\ my_version' = current_version
            /\ wpc' = [wpc EXCEPT !["sink"] = "recv"]
            /\ wlocal' = [wlocal EXCEPT !["sink"] = [NoLocal EXCEPT !.mine = current_version]]
       ELSE UNCHANGED <<match_thread, match_sender, my_version, wpc, wlocal>>
    /\ match_queue' = IF any_matches(ignore_matcher, Head(cmd).text)
                      THEN match_queue
                      ELSE Append(match_queue, Head(cmd).text)
    /\ last_arg' = [n |-> 0, text |-> Head(cmd).text]
    /\ cmd' = Tail(cmd)
    /\ UNCHANGED <<pattern_vars, ignore_matcher, is_walking, path, dir_len, log, prev_op, window_vars,
                   current_version, walker_thread, todo, quit, last_op, run_vars, ops, freed>>

\* self.pattern.reset()
PatternReset ==
    /\ At("reset")
    /\ matcher' = Matcher_reset(matcher)
    /\ history' = Append(history, matcher')
    /\ cmd' = Tail(cmd)
    /\ UNCHANGED <<pversion, scope, ignore_matcher, cmd_vars, window_vars, walker_vars,
                   worker_vars, last_op, run_vars, ops, freed>>

\* self.pattern.skip_prefix(n)
PatternSkipPrefix ==
    /\ At("skip_prefix")
    /\ matcher' = Matcher_skip_prefix(matcher, Head(cmd).arg)
    /\ history' = Append(history, matcher')
    /\ cmd' = Tail(cmd)
    /\ UNCHANGED <<pversion, scope, ignore_matcher, cmd_vars, window_vars, walker_vars,
                   worker_vars, last_op, run_vars, ops, freed>>

\* self.ignore_pattern.reset()
IgnoreReset ==
    /\ At("ignore_reset")
    /\ ignore_matcher' = Matcher_reset(ignore_matcher)
    /\ cmd' = Tail(cmd)
    /\ UNCHANGED <<pattern_vars, cmd_vars, window_vars, walker_vars, worker_vars, last_op,
                   run_vars, ops, freed>>

\* self.ignore_pattern.skip_prefix(n)
IgnoreSkipPrefix ==
    /\ At("ignore_skip_prefix")
    /\ ignore_matcher' = Matcher_skip_prefix(ignore_matcher, Head(cmd).arg)
    /\ cmd' = Tail(cmd)
    /\ UNCHANGED <<pattern_vars, cmd_vars, window_vars, walker_vars, worker_vars, last_op,
                   run_vars, ops, freed>>

\* an ignore that appends its argument to the ignore pattern
IgnoreSet_Append ==
    /\ At("ignore_set")
    /\ ignore_matcher' = Matcher_add(ignore_matcher, Head(cmd).text).m
    /\ cmd' = Tail(cmd)
    /\ UNCHANGED <<pattern_vars, cmd_vars, window_vars, walker_vars, worker_vars, last_op,
                   run_vars, ops, freed>>

\* self.ignore_pattern.set(0, arg)
IgnoreSet ==
    /\ At("ignore_set")
    /\ ignore_matcher' = Matcher_set(ignore_matcher, Head(cmd).arg, Head(cmd).text).m
    /\ cmd' = Tail(cmd)
    /\ UNCHANGED <<pattern_vars, cmd_vars, window_vars, walker_vars, worker_vars, last_op,
                   run_vars, ops, freed>>

\* the match thread: `for msg in rx.iter()` receives the next line
SinkRecv ==
    /\ wpc["sink"] = "recv"
    /\ match_queue # << >>
    /\ match_queue' = Tail(match_queue)
    /\ wlocal' = [wlocal EXCEPT !["sink"].entry = Head(match_queue)]
    /\ SetPc("sink", "add")
    /\ UNCHANGED <<pattern_vars, ignore_matcher, is_walking, path, dir_len, match_thread, match_sender, last_arg,
                   log, prev_op, window_vars, walker_vars, cmd, last_op, run_vars, ops, freed>>

\* the match thread: rx.iter() ends once the sender is dropped and the
\* channel is empty, and the thread returns
SinkExit ==
    /\ wpc["sink"] = "recv"
    /\ match_queue = << >>
    /\ ~match_sender
    /\ SetPc("sink", "exit")
    /\ UNCHANGED <<pattern_vars, ignore_matcher, cmd_vars, window_vars, walker_vars, wlocal, cmd,
                   last_op, run_vars, ops, freed>>

\* the match thread inside builder.out.add(msg, 0, &walker_version)
SinkAdd ==
    \/ ContentAdd("sink") \/ CvarWait("sink") \/ AddVersionCheck("sink") \/ AddRetest("sink")
    \/ AddInsert("sink")

Sink == SinkRecv \/ SinkExit \/ SinkAdd

SpuriousAny == \E w \in Producers : SpuriousWake(w)

Commands ==
    \/ Command_walk \/ Command_match \/ Command_stop \/ Command_add \/ Command_ignore
    \/ Command_rm \/ Command_set \/ Command_skip_prefix

CommandStep ==
    \/ IncVersion \/ MatcherAdd \/ MatcherRm \/ MatcherSet \/ Retain \/ RetainNext \/ Send
    \/ Clear \/ Kill \/ Killed \/ Join \/ Spawn \/ SetIsWalking \/ change_pattern
    \/ ensure_running \/ kill_match_thread \/ JoinMatch \/ match_line \/ PatternReset
    \/ PatternSkipPrefix \/ IgnoreReset \/ IgnoreSkipPrefix \/ IgnoreSet

NextCmd == Worker \/ Sink \/ SpuriousAny \/ WalkerDone \/ Relay \/ Commands \/ CommandStep

SpecCmd == Init /\ [][NextCmd]_vars
IsWalkFrame(f) == f \in {"WalkStarted", "WalkDone"}

\* the started and done frames sent so far
WalkFrames == SelectSeq(log, IsWalkFrame)

\* a started frame has been sent and its done frame has not
TraversalOpen == Len(WalkFrames) % 2 = 1

\* C15: the started and done frames alternate, beginning with started; a
\* worker of a traversal adds files only between the traversal's started and
\* its done; and a traversal that was killed has sent its done by the time
\* kill_running has joined it, so before the next started
C15_StartedDoneAlternate ==
    /\ \A i \in 1..Len(WalkFrames) :
          WalkFrames[i] = IF i % 2 = 1 THEN "WalkStarted" ELSE "WalkDone"
    /\ \A w \in Workers : wpc[w] \notin {"off"} => TraversalOpen
    /\ (walker_thread = "none" /\ ~At("spawn")) => ~TraversalOpen

\* a second traversal was killed with entries left to visit and has sent its
\* done while kill_running waits to join it
C15_Witness ==
    /\ At("join") /\ walker_thread = "finished"
    /\ quit /\ todo # {}
    /\ Len(WalkFrames) = 4
\* the command thread is in an add or set whose mutation has returned Narrow
NarrowEdit ==
    /\ last_op \in {"add", "set"}
    /\ scope = Narrow
    /\ ~Idle /\ Head(cmd).op \notin {"inc_version", "add", "set"}

\* C16: the steps of an add or set whose scope is Narrow leave the walker
\* version, the traversal thread and its quit flag as they are and send no
\* started, done, clear or resync frame; each either leaves the window and
\* the channel alone or removes one entry that does not match and sends its
\* RmFile; and when the edit returns no entry that does not match is left
C16_NarrowOnlyRemoves ==
    [][(NarrowEdit /\ (cmd' # cmd \/ (At("retain_next") /\ content' # content))) =>
         /\ current_version' = current_version
         /\ my_version' = my_version
         /\ walker_thread' = walker_thread
         /\ quit' = quit /\ todo' = todo
         /\ log' = log
         /\ \/ content' = content /\ out' = out
            \/ \E k \in content :
                  /\ ~all_matches(matcher, k)
                  /\ content' = content \ {k}
                  /\ out' = Append(out, RmFile(k))
         /\ cmd' = << >> => \A k \in content' : all_matches(matcher, k)]_vars

\* a Narrow add has removed an entry from the window while the traversal
\* that added it is still running
C16_Witness ==
    /\ NarrowEdit /\ last_op = "add" /\ At("retain_next")
    /\ Head(cmd).arg > Cardinality(content)
    /\ walker_thread = "running"
\* a step of a thread that runs: a spurious wakeup and a new command are
\* left out
ProgressCmd == Worker \/ Sink \/ WalkerDone \/ Relay \/ CommandStep

\* the command thread is in an edit whose mutation has returned Change or Widen
ChangeEdit ==
    /\ ~Idle
    /\ \/ /\ last_op \in {"add", "set", "rm"}
          /\ scope # Narrow
          /\ Head(cmd).op \notin {"inc_version", "add", "set", "rm"}
       \/ /\ last_op = "skip-prefix"
          /\ Head(cmd).op \notin {"ignore_skip_prefix", "skip_prefix"}

\* C17: an edit whose scope is Change or Widen runs to its end, in the form
\* a finite run refutes: while the edit has steps left (joining the match
\* thread and sending resync when not walking, joining the traversal,
\* removing the unmatched entries and starting a traversal when walking),
\* some thread can take a step
C17_ChangeEditCompletes == ChangeEdit => ENABLED ProgressCmd
\* C18: when a stop command has returned, no traversal is running, the
\* window is empty and the last frame without payload sent is the clear of
\* the stop, the pattern and the ignore pattern have empty text and
\* skip_prefix 0, and is_walking is false
C18_Stop ==
    (Idle /\ last_op = "stop") =>
       /\ walker_thread = "none"
       /\ \A w \in Workers : wpc[w] = "off"
       /\ content = {}
       /\ log # << >> /\ Last(log) = "Clear"
       /\ matcher.text = << >> /\ matcher.skip_prefix = 0
       /\ ignore_matcher.text = << >> /\ ignore_matcher.skip_prefix = 0
       /\ ~is_walking

\* a stop has returned after a traversal was started and killed and the
\* patterns had a skip_prefix that was not 0
C18_Witness ==
    /\ Idle /\ last_op = "stop"
    /\ Len(WalkFrames) >= 2
    /\ \E i \in 1..Len(history) : history[i].skip_prefix # 0
\* C19: the first step of `ignore s` makes s the text of the ignore pattern
\* and no later step of the command changes it; no step changes the text of
\* the search pattern, sends started or starts a traversal; and when the
\* command returns the traversal has been joined, the window is empty and
\* the last frame without payload sent is its clear
C19_Ignore ==
    [][(last_op = "ignore" /\ ~Idle /\ cmd' # cmd) =>
         /\ IF At("ignore_set")
            THEN ignore_matcher'.text = Head(cmd).text
            ELSE ignore_matcher' = ignore_matcher
         /\ matcher'.text = matcher.text
         /\ log' # Append(log, "WalkStarted")
         /\ walker_thread' \in {walker_thread, "none"}
         /\ cmd' = << >> =>
               /\ walker_thread' = "none"
               /\ \A w \in Workers : wpc'[w] = "off"
               /\ content' = {}
               /\ log' # << >> /\ Last(log') = "Clear"]_vars

\* an ignore has returned after a traversal was started, with a search
\* pattern that has text
C19_Witness ==
    /\ Idle /\ last_op = "ignore"
    /\ Len(WalkFrames) = 2
    /\ matcher.text # << >>
    /\ ignore_matcher.text # << >>
\* C20: when the add or walk that follows an ignore issued while is_walking
\* was true has returned, a traversal has been started: its started frame is
\* the last started or done frame sent but for the done of that traversal,
\* and the traversal thread exists
C20_AddAfterIgnoreRestarts ==
    (Idle /\ last_op \in {"add", "walk"} /\ prev_op = "ignore" /\ is_walking) =>
       /\ walker_thread # "none"
       /\ \E i \in 1..Len(log) :
             /\ log[i] = "WalkStarted"
             /\ \A j \in (i + 1)..Len(log) : log[j] = "WalkDone"

\* C21: an entry or line the ignore pattern matches when it is examined goes
\* no further: the worker that examines the entry returns from visit with
\* nothing added and nothing sent, and match_line does not send the line to
\* the match thread
C21_IgnoredNeverInserted ==
    [][/\ \A w \in Workers :
            (wpc[w] = "ignore" /\ wpc'[w] # "ignore"
               /\ any_matches(ignore_matcher, wlocal[w].entry)) =>
              /\ wpc'[w] = "next" /\ wlocal'[w].entry = << >>
              /\ content' = content /\ out' = out
       /\ (At("match_line") /\ cmd' # cmd /\ any_matches(ignore_matcher, Head(cmd).text)) =>
              /\ match_queue' = match_queue
              /\ content' = content /\ out' = out]_vars

\* a traversal has run to its end under an ignore pattern that matches the
\* file a: only the other file is in the window
C21_Witness ==
    /\ walker_thread = "finished" /\ todo = {}
    /\ any_matches(ignore_matcher, <<"a">>)
    /\ content = {<<"s">>}

\* the match thread is inside Window::add
SinkInAdd == wpc["sink"] \in {"add", "woken", "prewait", "waiting", "vcheck", "retest", "insert"}

\* the match thread holds, inside Window::add, the line of a match command
\* that has returned with no command issued since, and the ignore pattern
\* does not reject the line
HoldsMatchedLine ==
    /\ Idle /\ last_op = "match"
    /\ SinkInAdd
    /\ match_queue = << >>
    /\ wlocal["sink"].entry = last_arg.text
    /\ ~any_matches(ignore_matcher, last_arg.text)

\* C22: the line of a match command is not dropped, in the form a finite run
\* refutes: when the match thread comes back from Window::add with the line,
\* the pattern matches it and the window had room, the line is in the
\* window; and the match thread inserts the line only if the pattern
\* matches it
C22_MatchedLineInserted ==
    [][/\ (HoldsMatchedLine /\ wpc'["sink"] = "recv"
             /\ all_matches(matcher, last_arg.text) /\ HasRoom) =>
            last_arg.text \in content'
       /\ (HoldsMatchedLine /\ wpc["sink"] = "insert" /\ wpc'["sink"] = "recv"
             /\ last_arg.text \in content' \ content) =>
            all_matches(matcher, last_arg.text)]_vars

(***************************************************************************)
(* CommandReader (src/server/mod.rs): read and get_cmd over an input that  *)
(* delivers its bytes in chunks.  The bytes are valid UTF-8.               *)
(***************************************************************************)
\* number of calls of input.read
MaxReads == 5

RECURSIVE Rep(_, _)
Rep(c, n) == IF n = 0 THEN << >> ELSE <<c>> \o Rep(c, n - 1)

\* what one call of input.read may deliver, when it fits
Chunks ==
    {<<NUL>>, <<"a">>, <<"b", " ">>, <<"a", " ", "b", NUL, "b">>, <<" ", NUL, NUL>>,
     Rep("a", InitialBuf - 1), Rep("a", InitialBuf) \o <<"b">>}

\* buf.copy_within(startp..endp, 0)
copy_within(b, from, to) ==
    [i \in 1..Len(b) |-> IF i <= to - from THEN b[from + i] ELSE b[i]]

\* input.read(&mut buf[endp..]) has written the n bytes of c
Filled(b, at, c) ==
    [i \in 1..Len(b) |-> IF i > at /\ i <= at + Len(c) THEN c[i - at] ELSE b[i]]

\* self.buf.extend_from_within(..)
extend_from_within(b) == b \o b

\* the end of the first segment of split(|c| *c == 0) when a second one
\* exists, without the terminator: first.len()
FirstLen(b, e) ==
    IF \E i \in 1..e : b[i] = NUL
    THEN Some((CHOOSE i \in 1..e : b[i] = NUL /\ \A j \in 1..(i - 1) : b[j] # NUL) - 1)
    ELSE None

\* a scan that takes the terminator for the first byte of the next frame
FrameEnd_NoSkip(b, e) == Unwrap(FirstLen(b, e))

\* self.startp = first.len() + 1
FrameEnd(b, e) == Unwrap(FirstLen(b, e)) + 1

\* split_at_space
split_at_space(data) ==
    LET pos == IF \E i \in 1..Len(data) : data[i] = " "
               THEN (CHOOSE i \in 1..Len(data) :
                        data[i] = " " /\ \A j \in 1..(i - 1) : data[j] # " ") - 1
               ELSE Len(data)
        a == Take(data, pos)
        b == Drop(data, pos)
    IN IF b = << >> THEN <<a, b>> ELSE <<a, Tail(b)>>

\* get_cmd with startp > 0
get_cmd(b, sp) == split_at_space(Take(b, sp - 1))

\* run: commander.read()
ReadCall ==
    /\ rpc = "idle" /\ input = "open"
    /\ rpc' = "top"
    /\ UNCHANGED <<pattern_vars, ignore_matcher, cmd_vars, window_vars, walker_vars, worker_vars,
                   cmd, last_op, ops, freed, input, frame, result, exit_code, connected, client, buf, startp, endp,
                   fed, got>>

\* read, the head of the loop: move what is left to the front; read more
\* only if the call before did not leave a frame behind
ReadShift ==
    /\ rpc = "top"
    /\ buf' = copy_within(buf, startp, endp)
    /\ endp' = endp - startp
    /\ startp' = 0
    /\ rpc' = IF startp = 0 THEN "input" ELSE "scan"
    /\ UNCHANGED <<pattern_vars, ignore_matcher, cmd_vars, window_vars, walker_vars, worker_vars,
                   cmd, last_op, ops, freed, input, frame, result, exit_code, connected, client, fed, got>>

\* input.read delivers n > 0 bytes; the buffer doubles when it is full
ReadInput ==
    /\ rpc = "input"
    /\ ops < MaxReads
    /\ \E c \in Chunks :
         /\ Len(c) <= Len(buf) - endp
         /\ LET b == Filled(buf, endp, c) IN
            buf' = IF endp + Len(c) = Len(buf) THEN extend_from_within(b) ELSE b
         /\ endp' = endp + Len(c)
         /\ fed' = fed \o c
    /\ ops' = ops + 1
    /\ rpc' = "scan"
    /\ UNCHANGED <<pattern_vars, ignore_matcher, cmd_vars, window_vars, walker_vars, worker_vars,
                   cmd, last_op, freed, input, frame, result, exit_code, connected, client, startp, got>>

\* input.read returns 0: the input is exhausted and read returns Err(Eof)
ReadZero ==
    /\ rpc = "input"
    /\ input' = "eof"
    /\ rpc' = "idle"
    /\ UNCHANGED <<pattern_vars, ignore_matcher, cmd_vars, window_vars, walker_vars, worker_vars,
                   cmd, last_op, ops, freed, frame, result, exit_code, connected, client, buf, startp, endp, fed,
                   got>>

\* the end of the loop body: with a terminator in buf[..endp], read returns
\* Ok and run calls get_cmd; without one the loop goes round
ReadScan ==
    /\ rpc = "scan"
    /\ IF IsSome(FirstLen(buf, endp))
       THEN /\ startp' = FrameEnd(buf, endp)
            /\ got' = Append(got, get_cmd(buf, startp'))
            /\ rpc' = "idle"
       ELSE /\ rpc' = "top"
            /\ UNCHANGED <<startp, got>>
    /\ UNCHANGED <<pattern_vars, ignore_matcher, cmd_vars, window_vars, walker_vars, worker_vars,
                   cmd, last_op, ops, freed, input, frame, result, exit_code, connected, client, buf, endp, fed>>

NextRd == ReadCall \/ ReadShift \/ ReadInput \/ ReadZero \/ ReadScan

SpecRd == Init /\ [][NextRd]_vars

\* the positions of the terminators in s
NulsOf(s) == {i \in 1..Len(s) : s[i] = NUL}

\* the position of the k-th terminator in s, 0 for k = 0
NulPos(s, k) ==
    IF k = 0 THEN 0
    ELSE CHOOSE p \in NulsOf(s) : Cardinality({q \in NulsOf(s) : q <= p}) = k

\* a frame as the pair of the bytes before its first space and the bytes
\* after it
Halves(f) ==
    IF \E i \in 1..Len(f) : f[i] = " "
    THEN LET p == CHOOSE i \in 1..Len(f) : f[i] = " " /\ \A j \in 1..(i - 1) : f[j] # " "
         IN <<SubSeq(f, 1, p - 1), SubSeq(f, p + 1, Len(f))>>
    ELSE <<f, << >>>>

\* the terminated frames of the byte stream s, in order
FramesOf(s) ==
    [k \in 1..Cardinality(NulsOf(s)) |->
       Halves(SubSeq(s, NulPos(s, k - 1) + 1, NulPos(s, k) - 1))]

\* C23: whatever the chunks, the pairs returned so far are the first frames
\* of the bytes delivered, each once and in order; a read that returns Ok
\* returns the next frame; and when read returns Eof every terminated frame
\* of the input has been returned
C23_FramesInOrder ==
    /\ Len(got) <= Cardinality(NulsOf(fed))
    /\ got = Take(FramesOf(fed), Len(got))
    /\ input = "eof" => got = FramesOf(fed)

\* read has returned Eof after a frame longer than the initial buffer, which
\* came in more than one chunk, and a frame after it
C23_Witness ==
    /\ input = "eof"
    /\ Len(got) >= 2
    /\ Len(buf) > InitialBuf
    /\ \E k \in 1..(Len(got) - 1) : Len(got[k][1]) > InitialBuf

\* redraw holds the content and has sent the AddFile frames of n entries
RedrawSent(n) ==
    /\ last_op = "redraw" /\ At("redraw_next")
    /\ n = Cardinality(content) - Len(Head(cmd).text)

\* C24: the steps of redraw leave the content and the size as they are; the
\* first sends Clear; each later one that sends a frame sends the AddFile of
\* the entry with exactly as many smaller entries in the window as frames
\* were sent before it; and redraw returns once a frame was sent for each entry
C24_Redraw ==
    [][(last_op = "redraw" /\ ~Idle /\ cmd' # cmd) =>
         /\ content' = content /\ size' = size
         /\ At("send") => out' = Append(out, Frame("Clear"))
         /\ At("redraw") => (out' = out /\ RedrawSent(0)')
         /\ At("redraw_next") =>
              \E n \in 0..Cardinality(content) :
                 /\ RedrawSent(n)
                 /\ IF n = Cardinality(content)
                    THEN out' = out /\ Idle'
                    ELSE \E k \in content :
                            /\ Cardinality({x \in content : BytesLess(x, k)}) = n
                            /\ out' = Append(out, AddFile(k))
                            /\ RedrawSent(n + 1)']_vars

\* redraw has sent a frame for each of the two entries in the window
C24_Witness ==
    /\ RedrawSent(2)
    /\ Cardinality(content) = 2

\* C25: workers exist only inside the one traversal thread, and all carry
\* the version that thread was started with; a traversal is spawned only
\* when no handle is held, no worker of an earlier traversal is left and the
\* walker version has been bumped since the earlier start; so once
\* kill_running has taken and joined the handle no worker adds to the window
C25_OneTraversal ==
    /\ (\E w \in Workers : wpc[w] # "off") => walker_thread = "running"
    /\ \A w1, w2 \in Workers :
          (wpc[w1] # "off" /\ wpc[w2] # "off") => wlocal[w1].mine = wlocal[w2].mine
    /\ At("spawn") => (walker_thread = "none" /\ my_version < current_version)

\* a traversal is about to be spawned after an earlier one was killed with
\* entries left to visit
C25_Witness ==
    /\ At("spawn")
    /\ quit /\ todo # {}
    /\ Len(WalkFrames) = 3

(***************************************************************************)
(* The window with an outbound channel whose receiver can go away:         *)
(* relay_to_out returns on the first write error and drops the receiver.   *)
(***************************************************************************)
\* msg.write(&mut out)? / out.flush()? fails on a received frame: the
\* function returns, the receiver and what the channel still held are dropped
RelayFail ==
    /\ connected
    /\ out # << >>
    /\ out' = << >>
    /\ connected' = FALSE
    /\ UNCHANGED <<pattern_vars, ignore_matcher, cmd_vars, size, content, content_lock, lock, cvar,
                   walker_vars, worker_vars, cmd, last_op, input, frame, result, exit_code,
                   reader_vars, client, ops, freed>>

NextAdd == Next \/ RelayFail

\* the server after a window_size command that made room for every file
InitAdd == InitWindow(Cardinality(Files), {})

SpecAdd == InitAdd /\ [][NextAdd]_vars

\* add() returned Some(()) to worker w: visit() answers Continue
ReturnsSome(w) == wpc'[w] = "next" /\ quit' = quit

\* add() returned None to worker w: visit() answers Quit
ReturnsNone(w) == wpc'[w] = "exit" /\ quit'

\* C26: Window.add emits AddFile(bytes) exactly when the call newly inserted
\* bytes into the content.  A value already present, or one the re-test
\* rejects, leaves the content unchanged, emits nothing and returns Accepted;
\* a value that is inserted while the emission fails returns Killed.
C26_AddEmits ==
    [][/\ \A w \in Workers :
            LET e == wlocal[w].entry IN
            /\ (wpc[w] = "insert" /\ wpc'[w] # "insert") =>
                  IF e \in content
                  THEN content' = content /\ out' = out /\ ReturnsSome(w)
                  ELSE /\ content' = content \cup {e}
                       /\ IF connected
                          THEN out' = Append(out, AddFile(e)) /\ ReturnsSome(w)
                          ELSE out' = out /\ ReturnsNone(w)
            /\ (wpc[w] = "retest" /\ wpc'[w] \notin {"retest", "insert"}) =>
                  (content' = content /\ out' = out /\ ReturnsSome(w))
       /\ (~At("redraw_next") /\ Len(out') > Len(out) /\ out'[Len(out')].t = "AddFile") =>
             \E w \in Workers :
                /\ wpc[w] = "insert"
                /\ wlocal[w].entry \notin content
                /\ out'[Len(out')] = AddFile(wlocal[w].entry)
                /\ content' = content \cup {wlocal[w].entry}]_vars

\* a worker's add inserted a value while the receiver was gone, and the
\* traversal, whose version is still right, was told to quit
C26_Witness ==
    /\ ~connected
    /\ quit
    /\ ~is_wrong(my_version)
    /\ walker_thread = "running"
    /\ \E w \in Workers : wpc[w] = "exit"
    /\ Cardinality(content) >= 2

\* C27: Window.add returns Killed, with the content unchanged and no frame
\* emitted, whenever the caller's walker version is wrong on entry or
\* becomes wrong while the caller waits for capacity: the check that finds
\* the version wrong returns None and touches neither content nor channel,
\* and a caller waiting with a wrong version is not left where no thread can
\* take a step
C27_ReturnsKilled ==
    \A w \in Workers :
       (wpc[w] = "waiting" /\ is_wrong(wlocal[w].mine)) => ENABLED Progress

\* the return itself: whenever content_add finds the version wrong, on
\* entry or after a wakeup, add returns None, the content is unchanged and
\* no frame is sent
C27_KilledPath ==
    [][\A w \in Workers :
          (wpc[w] \in {"add", "woken"} /\ wpc'[w] # wpc[w] /\ is_wrong(wlocal[w].mine)) =>
             (ReturnsNone(w) /\ content' = content /\ out' = out)]_vars

(***************************************************************************)
(* The window calls on a window that is already full                       *)
(***************************************************************************)
InitRm == \E c \in SUBSET Files : c # {} /\ InitWindow(Cardinality(c), c)

SpecRm == InitRm /\ [][Next]_vars

\* the entries remove_unmatched has still to drop
Unmatched == {k \in content : ~all_matches(matcher, k)}

\* C28: remove_unmatched removes exactly the entries that do not match the
\* current pattern, emits one RmFile per removed entry in ascending byte
\* order, keeps every matching entry without a frame, and notifies the
\* waiting producers iff at least one entry was removed
C28_RemoveUnmatched ==
    [][At("retain_next") =>
         IF cmd' # cmd
         \* the call returns: nothing unmatched is left, and the notification
         THEN /\ Unmatched = {}
              /\ content' = content /\ out' = out
              /\ IF Head(cmd).arg > Cardinality(content)
                 THEN cvar' = {} /\ \A w \in cvar : wpc'[w] = "woken"
                 ELSE cvar' = cvar /\ wpc' = wpc
         \* one more entry goes: the smallest unmatched one, with its frame
         ELSE content' # content =>
                \E k \in Unmatched :
                   /\ \A x \in Unmatched \ {k} : BytesLess(k, x)
                   /\ content' = content \ {k}
                   /\ out' = Append(out, RmFile(k))
                   /\ Head(cmd').arg = Head(cmd).arg]_vars

\* remove_unmatched has dropped both entries of a full window, smallest first
C28_Witness ==
    /\ Idle
    /\ last_op = "remove_unmatched"
    /\ content = {}
    /\ \E i \in 1..(Len(out) - 1) :
          /\ out[i].t = "RmFile" /\ out[i + 1].t = "RmFile"
          /\ BytesLess(out[i].b, out[i + 1].b)

\* C29: Window.remove(bytes, v) removes the entry if it is present and v is
\* the current pattern version; with an advanced pattern version it removes
\* the entry only if it no longer matches the current pattern; it emits no
\* RmFile, and it notifies the producers only when an entry was removed and
\* |content| < size afterwards
C29_Remove ==
    [][(At("remove") /\ cmd' # cmd) =>
         LET value == Head(cmd).text
             v == Head(cmd).arg
         IN /\ v = pversion => content' = content \ {value}
            /\ v # pversion =>
                  content' = IF all_matches(matcher, value) THEN content ELSE content \ {value}
            /\ out' = out
            /\ IF content' # content /\ Cardinality(content') < size
               THEN cvar' = {} /\ \A w \in cvar : wpc'[w] = "woken"
               ELSE cvar' = cvar /\ wpc' = wpc]_vars

\* a remove has taken an entry from a full window and woken the producer
\* that waited for room, after the pattern had advanced
C29_Witness ==
    /\ Idle
    /\ last_op = "remove"
    /\ freed
    /\ pversion > 0
    /\ \E w \in Workers : wpc[w] = "woken"

\* set(n, t) on matcher m takes an append path: start >= |text|, or t begins
\* with text[start..]
SetAppends(m, n, t) == Min(n, Len(m.text)) = Len(m.text) \/ SetAppend(m, n, t)

\* what set(n, t) appends on an append path
SetTail(m, n, t) ==
    IF Min(n, Len(m.text)) = Len(m.text) THEN t ELSE Drop(t, Len(m.text) - Min(n, Len(m.text)))

\* no fragment of t begins with `>`
NoEndsWithFragment(t) ==
    \A i \in 1..Len(Split(t)) : Split(t)[i] = << >> \/ Head(Split(t)[i]) # ">"

\* t begins with text that extends the last term of m
ExtendsLastTerm(m, t) == m.mode # "New" /\ Head(Split(t)) # << >>

\* the three paths of set(start, s): the scope (and matcher) of add(s), of
\* add(tail), or the rebuilt buffer with Change
SetPaths ==
    LET m == matcher
        n == last_arg'.n
        t == last_arg'.text
        r == [m |-> matcher', scope |-> scope']
    IN IF SetAppends(m, n, t)
       THEN r = Matcher_add(m, SetTail(m, n, t))
       ELSE /\ scope' = Change
            /\ matcher' = Matcher_add(Matcher_reset(m), Take(m.text, Min(n, Len(m.text))) \o t).m

\* C30 as stated: set(start, s) returns the scope of add(s) when
\* start >= |text|, the scope of adding the tail when s begins with
\* text[start..], and otherwise rebuilds the buffer and returns Change;
\* hence a set that only appends non-`>` text returns Narrow, the scope
\* under which change_pattern does not restart a running traversal
C30_SetScopeAsStated ==
    [][Called("set") =>
         /\ SetPaths
         /\ (/\ SetAppends(matcher, last_arg'.n, last_arg'.text)
             /\ NoEndsWithFragment(SetTail(matcher, last_arg'.n, last_arg'.text)))
               => scope' = Narrow]_vars

\* C30, amended: the three paths as stated; a set that only appends
\* non-`>` text returns Narrow unless that text extends an ends-with term
C30_SetScope ==
    [][Called("set") =>
         LET tail == SetTail(matcher, last_arg'.n, last_arg'.text) IN
         /\ SetPaths
         /\ (/\ SetAppends(matcher, last_arg'.n, last_arg'.text)
             /\ NoEndsWithFragment(tail)
             /\ ~(matcher.mode = "EndsWith" /\ ExtendsLastTerm(matcher, tail)))
               => scope' = Narrow]_vars

\* a set found its suffix in the text, appended the rest to the last term
\* and returned Narrow
C30_Witness ==
    /\ last_op = "set" /\ Len(history) >= 2
    /\ scope = Narrow
    /\ LET m == history[Len(history) - 1] IN
          /\ SetAppend(m, last_arg.n, last_arg.text)
          /\ SetTail(m, last_arg.n, last_arg.text) # << >>
          /\ ExtendsLastTerm(m, SetTail(m, last_arg.n, last_arg.text))

\* text t, added to matcher m, starts a new `>` term: a fragment that does
\* not continue the last term begins with `>`
StartsEndsWithTerm(m, t) ==
    \E i \in 1..Len(Split(t)) :
       /\ i > 1 \/ m.mode = "New"
       /\ Split(t)[i] # << >>
       /\ Head(Split(t)[i]) = ">"

\* C31: add(text) returns Change iff text starts a new `>` term or extends
\* the current EndsWith term with a non-empty fragment, and Narrow in every
\* other case; rm(n) returns Change for every n
C31_AddRmScope ==
    [][/\ Called("add") =>
            scope' = IF \/ StartsEndsWithTerm(matcher, last_arg'.text)
                        \/ matcher.mode = "EndsWith" /\ ExtendsLastTerm(matcher, last_arg'.text)
                     THEN Change ELSE Narrow
       /\ Called("rm") => scope' = Change]_vars

\* an add without `>` extended the ends-with term and returned Change
C31_Witness ==
    /\ last_op = "add" /\ Len(history) >= 2
    /\ scope = Change
    /\ history[Len(history) - 1].mode = "EndsWith"
    /\ ~StartsEndsWithTerm(history[Len(history) - 1], last_arg.text)
    /\ Unwrap(matcher.ends_with) # Unwrap(history[Len(history) - 1].ends_with)

\* C32: after reset() the matcher behaves as a newly created one: the text
\* is empty, no prefix, suffix or regex remains, and the add that follows
\* yields the text and the all_matches/any_matches results it yields on a
\* fresh pattern (one that skips the same prefix)
C32_ResetIsFresh ==
    [][/\ Called("reset") =>
            /\ matcher'.text = << >> /\ matcher'.patterns = << >>
            /\ matcher'.starts_with = None /\ matcher'.ends_with = None
       /\ (Called("add") /\ last_op = "reset") =>
            /\ matcher'.text = Built(matcher, last_arg'.text).text
            /\ \A h \in Haystacks :
                  /\ all_matches(matcher', h) = all_matches(Built(matcher, last_arg'.text), h)
                  /\ any_matches(matcher', h) = any_matches(Built(matcher, last_arg'.text), h)]_vars

\* C33: after every Pattern mutation either bad_regex is empty and every
\* regex slot holds a compiled regex, or bad_regex holds the raw source of
\* the last regex term, which does not compile, and the last slot of
\* patterns is the empty regex
C33_BadRegexSlot ==
    IF IsSome(matcher.bad_regex)
    THEN /\ ~make_regex(Unwrap(matcher.bad_regex))
         /\ matcher.patterns # << >>
         /\ Last(matcher.patterns) = << >>
    ELSE \A i \in 1..Len(matcher.patterns) : make_regex(matcher.patterns[i])

\* C34: whenever the command thread is idle between commands and no
\* producer, traversal worker or match thread, is inside Window::add, every
\* path in the window content satisfies all_matches under the current
\* pattern
C34_ContentMatches ==
    (Idle /\ \A w \in Producers : ~InAdd(w)) =>
       \A p \in content : all_matches(matcher, p)

\* C34 in walking mode alone: the same for a server that was never sent a
\* `match` line, so that every entry of the content came from a traversal
C34_WalkingContentMatches ==
    (Idle /\ last_arg.text = << >> /\ \A w \in Producers : ~InAdd(w)) =>
       \A p \in content : all_matches(matcher, p)

\* C35: every command handed to Walker::command returns while the relay
\* keeps draining, also when it ends a match thread that is blocked in
\* Window::add on a full window; in the form a finite run refutes: while a
\* command waits for a thread to end, at the join of kill_running or of
\* kill_match_thread, some thread can take a step
C35_CommandReturns == (At("join") \/ At("join_match")) => ENABLED ProgressCmd

\* the same for the walk command alone, whose kill_running bumps the version
\* and notifies before the match thread is joined
C35_WalkReturns == (At("join_match") /\ last_op = "walk") => ENABLED ProgressCmd

(***************************************************************************)
(* The commands together with the client at the far end of the relay: it   *)
(* keeps a set and replays each frame written to it                        *)
(***************************************************************************)
\* the client's set after frame f: `clear` empties it, `+p` inserts p, `-p`
\* deletes p, every other frame leaves it alone
Replayed(S, f) ==
    CASE f.t = "Clear" -> {}
      [] f.t = "AddFile" -> S \cup {f.b}
      [] f.t = "RmFile" -> S \ {f.b}
      [] OTHER -> S

\* relay_to_out writes the next frame, and the client replays it
RelayView ==
    /\ out # << >>
    /\ out' = Tail(out)
    /\ client' = Replayed(client, Head(out))
    /\ UNCHANGED <<pattern_vars, ignore_matcher, cmd_vars, size, content, content_lock, lock, cvar,
                   walker_vars, worker_vars, cmd, last_op, input, frame, result, exit_code,
                   reader_vars, connected, ops, freed>>

\* "redraw" => self.visitor.out.redraw()
Command_redraw == CallRedraw

\* "window_size" with a size that is not below the current one
Command_window_size ==
    \E n \in Sizes : n >= size /\ Call("window_size", <<StepA("store_size", n), StepA("pop_last", n)>>)

NextView ==
    \/ Worker \/ Sink \/ SpuriousAny \/ WalkerDone \/ RelayView \/ Commands \/ Command_redraw
    \/ Command_window_size \/ CommandStep \/ Redraw \/ RedrawNext \/ StoreSize \/ PopLast

SpecView == Init /\ [][NextView]_vars

\* the command thread is idle, every frame sent has been written, and no
\* producer holds the content
Quiescent == Idle /\ out = << >> /\ content_lock = "none"

C37_AddSplit ==
    [][(Called("add") /\ last_op = "add" /\ Len(history) = 2) =>
         LET a == matcher.text
             b == last_arg'.text
             whole == Matcher_add(DefaultMatcher, a \o b).m
         IN /\ matcher'.text = whole.text
            /\ \A h \in Haystacks :
                  /\ all_matches(matcher', h) = all_matches(whole, h)
                  /\ any_matches(matcher', h) = any_matches(whole, h)]_vars

(***************************************************************************)
(* The walk command, with directories that exist and arguments that fail,  *)
(* beside a running traversal, a match sink and edits of the pattern.      *)
(***************************************************************************)
NextWalk ==
    \/ Worker \/ Sink \/ SpuriousAny \/ WalkerDone \/ Relay
    \/ Command_walk \/ Command_walk_failed \/ Command_match \/ Command_add
    \/ Kill \/ Killed \/ Join \/ kill_match_thread \/ JoinMatch \/ SetIsWalking
    \/ ensure_running \/ Send \/ Spawn \/ match_line
    \/ IncVersion \/ MatcherAdd \/ change_pattern \/ Retain \/ RetainNext

SpecWalk == Init /\ [][NextWalk]_vars

\* a step of the command thread inside a walk command that fails: its
\* call of walk, then its message
WalkFailedStep ==
    \/ Idle /\ last_op' = "walk" /\ cmd' # << >> /\ Head(cmd').op = "send"
    \/ last_op = "walk" /\ At("send") /\ Head(cmd).text = "Message" /\ cmd' # cmd

\* C38: a walk command that fails emits a message frame and leaves the
\* stored root path, dir_len, is_walking, the running traversal and its
\* generation, the match sink and the window content as they were
C38_WalkFailure ==
    [][WalkFailedStep =>
         /\ At("send") => out' = Sent(Frame("Message"))
         /\ path' = path
         /\ dir_len' = dir_len
         /\ is_walking' = is_walking
         /\ walker_thread' = walker_thread
         /\ current_version' = current_version
         /\ my_version' = my_version
         /\ match_vars' = match_vars
         /\ content' = content]_vars
====
